---- MODULE Spec2Model ----
(***************************************************************************)
(* A model of expense_tracker.py: the CSV record store (load_expenses,     *)
(* save_expenses), interactive record entry (add_expense), the budget      *)
(* summary (track_budget) and the menu loop (main).                        *)
(*                                                                         *)
(* Text is a sequence of one-character strings.  A float is a record       *)
(*   [k |-> "fin" | "inf" | "nan", neg |-> sign bit, digs, pt]             *)
(* whose finite value is 0.d1 d2 ... dn * 10^pt, digs = <<d1, ..., dn>>    *)
(* without leading or trailing zeros (digs = <<>> is zero, pt = 0): the    *)
(* digits are those repr() prints, the shortest decimal that names the     *)
(* IEEE-754 double.                                                        *)
(***************************************************************************)
EXTENDS Integers, Sequences, FiniteSets, TLC

(***************************************************************************)
(* Characters and text                                                     *)
(*                                                                         *)
(* A text is a sequence of characters.  A printable ASCII character is the *)
(* one-character string of itself, TAB, LF, FF and CR are "\t", "\n",      *)
(* "\f" and "\r", and any other code point is the string "U+" followed by  *)
(* its hexadecimal number ("U+000B" is VT, "U+0663" is ARABIC-INDIC DIGIT  *)
(* THREE, "U+DC80" is a lone surrogate).                                   *)
(***************************************************************************)
CR == "\r"
LF == "\n"
TAB == "\t"
FF == "\f"
VT == "U+000B"
QUOTE == "\""
COMMA == ","

DigitSeq == <<"0", "1", "2", "3", "4", "5", "6", "7", "8", "9">>
UpperSeq == <<"A", "B", "C", "D", "E", "F", "G", "H", "I", "J", "K", "L", "M",
              "N", "O", "P", "Q", "R", "S", "T", "U", "V", "W", "X", "Y", "Z">>
LowerSeq == <<"a", "b", "c", "d", "e", "f", "g", "h", "i", "j", "k", "l", "m",
              "n", "o", "p", "q", "r", "s", "t", "u", "v", "w", "x", "y", "z">>

\* the decimal digits of Unicode 14.0.0 (category Nd), one row per script, each
\* row holding the digits zero to nine: what float(), int() and the \d of re
\* take for a digit
DecimalDigits ==
    << <<"0", "1", "2", "3", "4", "5", "6", "7", "8", "9">>,
       <<"U+0660", "U+0661", "U+0662", "U+0663", "U+0664", "U+0665", "U+0666", "U+0667", "U+0668", "U+0669">>,
       <<"U+06F0", "U+06F1", "U+06F2", "U+06F3", "U+06F4", "U+06F5", "U+06F6", "U+06F7", "U+06F8", "U+06F9">>,
       <<"U+07C0", "U+07C1", "U+07C2", "U+07C3", "U+07C4", "U+07C5", "U+07C6", "U+07C7", "U+07C8", "U+07C9">>,
       <<"U+0966", "U+0967", "U+0968", "U+0969", "U+096A", "U+096B", "U+096C", "U+096D", "U+096E", "U+096F">>,
       <<"U+09E6", "U+09E7", "U+09E8", "U+09E9", "U+09EA", "U+09EB", "U+09EC", "U+09ED", "U+09EE", "U+09EF">>,
       <<"U+0A66", "U+0A67", "U+0A68", "U+0A69", "U+0A6A", "U+0A6B", "U+0A6C", "U+0A6D", "U+0A6E", "U+0A6F">>,
       <<"U+0AE6", "U+0AE7", "U+0AE8", "U+0AE9", "U+0AEA", "U+0AEB", "U+0AEC", "U+0AED", "U+0AEE", "U+0AEF">>,
       <<"U+0B66", "U+0B67", "U+0B68", "U+0B69", "U+0B6A", "U+0B6B", "U+0B6C", "U+0B6D", "U+0B6E", "U+0B6F">>,
       <<"U+0BE6", "U+0BE7", "U+0BE8", "U+0BE9", "U+0BEA", "U+0BEB", "U+0BEC", "U+0BED", "U+0BEE", "U+0BEF">>,
       <<"U+0C66", "U+0C67", "U+0C68", "U+0C69", "U+0C6A", "U+0C6B", "U+0C6C", "U+0C6D", "U+0C6E", "U+0C6F">>,
       <<"U+0CE6", "U+0CE7", "U+0CE8", "U+0CE9", "U+0CEA", "U+0CEB", "U+0CEC", "U+0CED", "U+0CEE", "U+0CEF">>,
       <<"U+0D66", "U+0D67", "U+0D68", "U+0D69", "U+0D6A", "U+0D6B", "U+0D6C", "U+0D6D", "U+0D6E", "U+0D6F">>,
       <<"U+0DE6", "U+0DE7", "U+0DE8", "U+0DE9", "U+0DEA", "U+0DEB", "U+0DEC", "U+0DED", "U+0DEE", "U+0DEF">>,
       <<"U+0E50", "U+0E51", "U+0E52", "U+0E53", "U+0E54", "U+0E55", "U+0E56", "U+0E57", "U+0E58", "U+0E59">>,
       <<"U+0ED0", "U+0ED1", "U+0ED2", "U+0ED3", "U+0ED4", "U+0ED5", "U+0ED6", "U+0ED7", "U+0ED8", "U+0ED9">>,
       <<"U+0F20", "U+0F21", "U+0F22", "U+0F23", "U+0F24", "U+0F25", "U+0F26", "U+0F27", "U+0F28", "U+0F29">>,
       <<"U+1040", "U+1041", "U+1042", "U+1043", "U+1044", "U+1045", "U+1046", "U+1047", "U+1048", "U+1049">>,
       <<"U+1090", "U+1091", "U+1092", "U+1093", "U+1094", "U+1095", "U+1096", "U+1097", "U+1098", "U+1099">>,
       <<"U+17E0", "U+17E1", "U+17E2", "U+17E3", "U+17E4", "U+17E5", "U+17E6", "U+17E7", "U+17E8", "U+17E9">>,
       <<"U+1810", "U+1811", "U+1812", "U+1813", "U+1814", "U+1815", "U+1816", "U+1817", "U+1818", "U+1819">>,
       <<"U+1946", "U+1947", "U+1948", "U+1949", "U+194A", "U+194B", "U+194C", "U+194D", "U+194E", "U+194F">>,
       <<"U+19D0", "U+19D1", "U+19D2", "U+19D3", "U+19D4", "U+19D5", "U+19D6", "U+19D7", "U+19D8", "U+19D9">>,
       <<"U+1A80", "U+1A81", "U+1A82", "U+1A83", "U+1A84", "U+1A85", "U+1A86", "U+1A87", "U+1A88", "U+1A89">>,
       <<"U+1A90", "U+1A91", "U+1A92", "U+1A93", "U+1A94", "U+1A95", "U+1A96", "U+1A97", "U+1A98", "U+1A99">>,
       <<"U+1B50", "U+1B51", "U+1B52", "U+1B53", "U+1B54", "U+1B55", "U+1B56", "U+1B57", "U+1B58", "U+1B59">>,
       <<"U+1BB0", "U+1BB1", "U+1BB2", "U+1BB3", "U+1BB4", "U+1BB5", "U+1BB6", "U+1BB7", "U+1BB8", "U+1BB9">>,
       <<"U+1C40", "U+1C41", "U+1C42", "U+1C43", "U+1C44", "U+1C45", "U+1C46", "U+1C47", "U+1C48", "U+1C49">>,
       <<"U+1C50", "U+1C51", "U+1C52", "U+1C53", "U+1C54", "U+1C55", "U+1C56", "U+1C57", "U+1C58", "U+1C59">>,
       <<"U+A620", "U+A621", "U+A622", "U+A623", "U+A624", "U+A625", "U+A626", "U+A627", "U+A628", "U+A629">>,
       <<"U+A8D0", "U+A8D1", "U+A8D2", "U+A8D3", "U+A8D4", "U+A8D5", "U+A8D6", "U+A8D7", "U+A8D8", "U+A8D9">>,
       <<"U+A900", "U+A901", "U+A902", "U+A903", "U+A904", "U+A905", "U+A906", "U+A907", "U+A908", "U+A909">>,
       <<"U+A9D0", "U+A9D1", "U+A9D2", "U+A9D3", "U+A9D4", "U+A9D5", "U+A9D6", "U+A9D7", "U+A9D8", "U+A9D9">>,
       <<"U+A9F0", "U+A9F1", "U+A9F2", "U+A9F3", "U+A9F4", "U+A9F5", "U+A9F6", "U+A9F7", "U+A9F8", "U+A9F9">>,
       <<"U+AA50", "U+AA51", "U+AA52", "U+AA53", "U+AA54", "U+AA55", "U+AA56", "U+AA57", "U+AA58", "U+AA59">>,
       <<"U+ABF0", "U+ABF1", "U+ABF2", "U+ABF3", "U+ABF4", "U+ABF5", "U+ABF6", "U+ABF7", "U+ABF8", "U+ABF9">>,
       <<"U+FF10", "U+FF11", "U+FF12", "U+FF13", "U+FF14", "U+FF15", "U+FF16", "U+FF17", "U+FF18", "U+FF19">>,
       <<"U+104A0", "U+104A1", "U+104A2", "U+104A3", "U+104A4", "U+104A5", "U+104A6", "U+104A7", "U+104A8", "U+104A9">>,
       <<"U+10D30", "U+10D31", "U+10D32", "U+10D33", "U+10D34", "U+10D35", "U+10D36", "U+10D37", "U+10D38", "U+10D39">>,
       <<"U+11066", "U+11067", "U+11068", "U+11069", "U+1106A", "U+1106B", "U+1106C", "U+1106D", "U+1106E", "U+1106F">>,
       <<"U+110F0", "U+110F1", "U+110F2", "U+110F3", "U+110F4", "U+110F5", "U+110F6", "U+110F7", "U+110F8", "U+110F9">>,
       <<"U+11136", "U+11137", "U+11138", "U+11139", "U+1113A", "U+1113B", "U+1113C", "U+1113D", "U+1113E", "U+1113F">>,
       <<"U+111D0", "U+111D1", "U+111D2", "U+111D3", "U+111D4", "U+111D5", "U+111D6", "U+111D7", "U+111D8", "U+111D9">>,
       <<"U+112F0", "U+112F1", "U+112F2", "U+112F3", "U+112F4", "U+112F5", "U+112F6", "U+112F7", "U+112F8", "U+112F9">>,
       <<"U+11450", "U+11451", "U+11452", "U+11453", "U+11454", "U+11455", "U+11456", "U+11457", "U+11458", "U+11459">>,
       <<"U+114D0", "U+114D1", "U+114D2", "U+114D3", "U+114D4", "U+114D5", "U+114D6", "U+114D7", "U+114D8", "U+114D9">>,
       <<"U+11650", "U+11651", "U+11652", "U+11653", "U+11654", "U+11655", "U+11656", "U+11657", "U+11658", "U+11659">>,
       <<"U+116C0", "U+116C1", "U+116C2", "U+116C3", "U+116C4", "U+116C5", "U+116C6", "U+116C7", "U+116C8", "U+116C9">>,
       <<"U+11730", "U+11731", "U+11732", "U+11733", "U+11734", "U+11735", "U+11736", "U+11737", "U+11738", "U+11739">>,
       <<"U+118E0", "U+118E1", "U+118E2", "U+118E3", "U+118E4", "U+118E5", "U+118E6", "U+118E7", "U+118E8", "U+118E9">>,
       <<"U+11950", "U+11951", "U+11952", "U+11953", "U+11954", "U+11955", "U+11956", "U+11957", "U+11958", "U+11959">>,
       <<"U+11C50", "U+11C51", "U+11C52", "U+11C53", "U+11C54", "U+11C55", "U+11C56", "U+11C57", "U+11C58", "U+11C59">>,
       <<"U+11D50", "U+11D51", "U+11D52", "U+11D53", "U+11D54", "U+11D55", "U+11D56", "U+11D57", "U+11D58", "U+11D59">>,
       <<"U+11DA0", "U+11DA1", "U+11DA2", "U+11DA3", "U+11DA4", "U+11DA5", "U+11DA6", "U+11DA7", "U+11DA8", "U+11DA9">>,
       <<"U+16A60", "U+16A61", "U+16A62", "U+16A63", "U+16A64", "U+16A65", "U+16A66", "U+16A67", "U+16A68", "U+16A69">>,
       <<"U+16AC0", "U+16AC1", "U+16AC2", "U+16AC3", "U+16AC4", "U+16AC5", "U+16AC6", "U+16AC7", "U+16AC8", "U+16AC9">>,
       <<"U+16B50", "U+16B51", "U+16B52", "U+16B53", "U+16B54", "U+16B55", "U+16B56", "U+16B57", "U+16B58", "U+16B59">>,
       <<"U+1D7CE", "U+1D7CF", "U+1D7D0", "U+1D7D1", "U+1D7D2", "U+1D7D3", "U+1D7D4", "U+1D7D5", "U+1D7D6", "U+1D7D7">>,
       <<"U+1D7D8", "U+1D7D9", "U+1D7DA", "U+1D7DB", "U+1D7DC", "U+1D7DD", "U+1D7DE", "U+1D7DF", "U+1D7E0", "U+1D7E1">>,
       <<"U+1D7E2", "U+1D7E3", "U+1D7E4", "U+1D7E5", "U+1D7E6", "U+1D7E7", "U+1D7E8", "U+1D7E9", "U+1D7EA", "U+1D7EB">>,
       <<"U+1D7EC", "U+1D7ED", "U+1D7EE", "U+1D7EF", "U+1D7F0", "U+1D7F1", "U+1D7F2", "U+1D7F3", "U+1D7F4", "U+1D7F5">>,
       <<"U+1D7F6", "U+1D7F7", "U+1D7F8", "U+1D7F9", "U+1D7FA", "U+1D7FB", "U+1D7FC", "U+1D7FD", "U+1D7FE", "U+1D7FF">>,
       <<"U+1E140", "U+1E141", "U+1E142", "U+1E143", "U+1E144", "U+1E145", "U+1E146", "U+1E147", "U+1E148", "U+1E149">>,
       <<"U+1E2F0", "U+1E2F1", "U+1E2F2", "U+1E2F3", "U+1E2F4", "U+1E2F5", "U+1E2F6", "U+1E2F7", "U+1E2F8", "U+1E2F9">>,
       <<"U+1E950", "U+1E951", "U+1E952", "U+1E953", "U+1E954", "U+1E955", "U+1E956", "U+1E957", "U+1E958", "U+1E959">>,
       <<"U+1FBF0", "U+1FBF1", "U+1FBF2", "U+1FBF3", "U+1FBF4", "U+1FBF5", "U+1FBF6", "U+1FBF7", "U+1FBF8", "U+1FBF9">> >>

DecimalDigitValue ==
    [c \in UNION {{DecimalDigits[r][i] : i \in 1..10} : r \in DOMAIN DecimalDigits} |->
        (CHOOSE i \in 1..10 : \E r \in DOMAIN DecimalDigits : DecimalDigits[r][i] = c) - 1]

IsAsciiDigit(c) == \E i \in DOMAIN DigitSeq : DigitSeq[i] = c
IsDigit(c) == IsAsciiDigit(c) \/ (Len(c) > 1 /\ c \in DOMAIN DecimalDigitValue)
DigitVal(c) == DecimalDigitValue[c]
DigitChar(n) == DigitSeq[n + 1]

\* the text with every decimal digit replaced by its ASCII digit
AsciiDigits(s) == [i \in DOMAIN s |-> IF IsDigit(s[i]) THEN DigitChar(DigitVal(s[i])) ELSE s[i]]

\* one character with an ASCII capital replaced by its small letter (float()
\* compares "inf", "nan" and "e" without regard to ASCII case)
LowerChar(c) ==
    IF \E i \in DOMAIN UpperSeq : UpperSeq[i] = c
    THEN LowerSeq[CHOOSE i \in DOMAIN UpperSeq : UpperSeq[i] = c]
    ELSE c
LowerText(s) == [i \in DOMAIN s |-> LowerChar(s[i])]

\* the whitespace float() strips from both ends: the six ASCII characters of
\* Py_ISSPACE and the Unicode spaces above U+007F (U+001C to U+001F are
\* whitespace to str.isspace but not to float())
IsSpace(c) ==
    c \in {" ", TAB, LF, VT, FF, CR,
           "U+0085", "U+00A0", "U+1680", "U+2000", "U+2001", "U+2002",
           "U+2003", "U+2004", "U+2005", "U+2006", "U+2007", "U+2008",
           "U+2009", "U+200A", "U+2028", "U+2029", "U+202F", "U+205F",
           "U+3000"}

LStrip(s) ==
    LET keep == {i \in DOMAIN s : ~IsSpace(s[i])}
    IN  IF keep = {} THEN <<>>
        ELSE SubSeq(s, CHOOSE i \in keep : \A j \in keep : i <= j, Len(s))

RStrip(s) ==
    LET keep == {i \in DOMAIN s : ~IsSpace(s[i])}
    IN  IF keep = {} THEN <<>>
        ELSE SubSeq(s, 1, CHOOSE i \in keep : \A j \in keep : j <= i)

Strip(s) == RStrip(LStrip(s))

\* index of the first occurrence of c in s, 0 when there is none
IndexOf(s, c) ==
    IF \E i \in DOMAIN s : s[i] = c
    THEN CHOOSE i \in DOMAIN s : s[i] = c /\ \A j \in 1..(i - 1) : s[j] # c
    ELSE 0

Zeros(n) == [i \in 1..n |-> "0"]

DropLeadingZeros(s) ==
    LET nz == {i \in DOMAIN s : s[i] # "0"}
    IN  IF nz = {} THEN <<>>
        ELSE SubSeq(s, CHOOSE i \in nz : \A j \in nz : i <= j, Len(s))

DropTrailingZeros(s) ==
    LET nz == {i \in DOMAIN s : s[i] # "0"}
    IN  IF nz = {} THEN <<>>
        ELSE SubSeq(s, 1, CHOOSE i \in nz : \A j \in nz : j <= i)

\* str() of a natural number
RECURSIVE IntToDigits(_)
IntToDigits(n) ==
    IF n < 10 THEN <<DigitChar(n)>>
    ELSE Append(IntToDigits(n \div 10), DigitChar(n % 10))

(***************************************************************************)
(* Natural numbers of any size, for the arithmetic of doubles: a number is *)
(* the sequence of its digits in base 2^15, least significant first, with  *)
(* no zero at the top (zero is the empty sequence).                        *)
(***************************************************************************)
LimbBits == 15
Base == 32768
Pow2Table == <<1, 2, 4, 8, 16, 32, 64, 128, 256, 512, 1024, 2048, 4096, 8192,
               16384, 32768>>
Pow2(r) == Pow2Table[r + 1]
Pow10Table == <<1, 10, 100, 1000, 10000>>

MaxOf(S) == CHOOSE x \in S : \A y \in S : y <= x

BigNorm(a) ==
    LET nz == {i \in DOMAIN a : a[i] # 0}
    IN  IF nz = {} THEN <<>> ELSE SubSeq(a, 1, MaxOf(nz))

\* -1, 0, 1 as a < b, a = b, a > b
BigCmp(a, b) ==
    IF Len(a) # Len(b) THEN (IF Len(a) < Len(b) THEN -1 ELSE 1)
    ELSE LET diff == {i \in DOMAIN a : a[i] # b[i]}
         IN  IF diff = {} THEN 0
             ELSE IF a[MaxOf(diff)] < b[MaxOf(diff)] THEN -1 ELSE 1

\* a + b: the digits lo..hi of the sum and the carry out of them
BigAdd(a, b) ==
    LET n == IF Len(a) > Len(b) THEN Len(a) ELSE Len(b)
        Limb(x, i) == IF i <= Len(x) THEN x[i] ELSE 0
        RECURSIVE Range(_, _, _)
        One(s) == [d |-> <<s % Base>>, c |-> s \div Base]
        Joined(low, high) == [d |-> low.d \o high.d, c |-> high.c]
        High(low, from, hi) == Joined(low, Range(from, hi, low.c))
        Range(lo, hi, carry) ==
            IF lo = hi THEN One(Limb(a, lo) + Limb(b, lo) + carry)
            ELSE High(Range(lo, (lo + hi) \div 2, carry), (lo + hi) \div 2 + 1, hi)
        Whole(r) == IF r.c = 0 THEN r.d ELSE Append(r.d, r.c)
    IN  IF n = 0 THEN <<>> ELSE Whole(Range(1, n, 0))

\* a - b, for a >= b
BigSub(a, b) ==
    LET Limb(x, i) == IF i <= Len(x) THEN x[i] ELSE 0
        RECURSIVE Range(_, _, _)
        One(s) == [d |-> <<IF s < 0 THEN s + Base ELSE s>>, c |-> IF s < 0 THEN 1 ELSE 0]
        Joined(low, high) == [d |-> low.d \o high.d, c |-> high.c]
        High(low, from, hi) == Joined(low, Range(from, hi, low.c))
        Range(lo, hi, borrow) ==
            IF lo = hi THEN One(a[lo] - Limb(b, lo) - borrow)
            ELSE High(Range(lo, (lo + hi) \div 2, borrow), (lo + hi) \div 2 + 1, hi)
        Whole(r) == BigNorm(r.d)
    IN  IF a = <<>> THEN <<>> ELSE Whole(Range(1, Len(a), 0))

\* a * m + c, for 0 < m <= Base and 0 <= c < Base
BigMulAdd(a, m, c) ==
    LET RECURSIVE Range(_, _, _)
        One(p) == [d |-> <<p % Base>>, c |-> p \div Base]
        Joined(low, high) == [d |-> low.d \o high.d, c |-> high.c]
        High(low, from, hi) == Joined(low, Range(from, hi, low.c))
        Range(lo, hi, carry) ==
            IF lo = hi THEN One(a[lo] * m + carry)
            ELSE High(Range(lo, (lo + hi) \div 2, carry), (lo + hi) \div 2 + 1, hi)
        Whole(r) == IF r.c = 0 THEN r.d ELSE Append(r.d, r.c)
    IN  IF a = <<>> THEN (IF c = 0 THEN <<>> ELSE <<c>>) ELSE Whole(Range(1, Len(a), c))

BigMulSmall(a, m) == BigMulAdd(a, m, 0)

\* quotient and remainder of a by m, for 0 < m <= Base
BigDivSmall(a, m) ==
    LET RECURSIVE Range(_, _, _)
        One(cur) == [q |-> <<cur \div m>>, r |-> cur % m]
        Joined(high, low) == [q |-> high.q \o low.q, r |-> low.r]
        Low(high, lo, to) == Joined(high, Range(lo, to, high.r))
        \* the digits hi down to lo, rem being what the digits above hi left:
        \* the quotient digits, the highest first, and what is left
        Range(lo, hi, rem) ==
            IF lo = hi THEN One(rem * Base + a[lo])
            ELSE Low(Range((lo + hi) \div 2 + 1, hi, rem), lo, (lo + hi) \div 2)
        Reversed(q) == [i \in DOMAIN q |-> q[Len(q) + 1 - i]]
        Whole(qr) == [q |-> BigNorm(Reversed(qr.q)), r |-> qr.r]
    IN  IF a = <<>> THEN [q |-> <<>>, r |-> 0] ELSE Whole(Range(1, Len(a), 0))

\* number of binary digits of a
BitLen(a) ==
    IF a = <<>> THEN 0
    ELSE LimbBits * (Len(a) - 1)
         + (CHOOSE n \in 1..LimbBits : Pow2(n - 1) <= a[Len(a)] /\ a[Len(a)] < Pow2(n))

\* binary digit i of a, digit 0 the lowest
BitAt(a, i) ==
    IF (i \div LimbBits) + 1 > Len(a) THEN 0
    ELSE (a[(i \div LimbBits) + 1] \div Pow2(i % LimbBits)) % 2

\* the binary digits of a below digit s are all zero
LowBitsZero(a, s) ==
    /\ \A i \in DOMAIN a : i <= s \div LimbBits => a[i] = 0
    /\ (s \div LimbBits) + 1 > Len(a) \/ a[(s \div LimbBits) + 1] % Pow2(s % LimbBits) = 0

ShiftLeft(a, s) ==
    IF a = <<>> THEN <<>>
    ELSE [i \in 1..(s \div LimbBits) |-> 0] \o BigMulSmall(a, Pow2(s % LimbBits))

\* floor(a / 2^s)
ShiftRight(a, s) ==
    IF s \div LimbBits >= Len(a) THEN <<>>
    ELSE BigDivSmall(SubSeq(a, (s \div LimbBits) + 1, Len(a)), Pow2(s % LimbBits)).q

\* a / 2^s rounded to the nearest integer, a tie to the even one
RoundShiftRight(a, s) ==
    LET up == /\ BitAt(a, s - 1) = 1
              /\ ~LowBitsZero(a, s - 1) \/ BitAt(a, s) = 1
    IN  IF s = 0 THEN a
        ELSE BigAdd(ShiftRight(a, s), IF up THEN <<1>> ELSE <<>>)

\* a * 10^n, four powers of ten at a time
RECURSIVE BigMulPow10(_, _)
BigMulPow10(a, n) ==
    IF n = 0 \/ a = <<>> THEN a
    ELSE IF n <= 4 THEN BigMulSmall(a, Pow10Table[n + 1])
    ELSE BigMulPow10(BigMulPow10(a, 4 * ((n \div 4 + 1) \div 2)),
                     n - 4 * ((n \div 4 + 1) \div 2))

\* the number written by a sequence of ASCII digits
BigOfDigits(d) ==
    LET RECURSIVE Val(_, _)
        Val(lo, hi) == IF lo > hi THEN 0 ELSE 10 * Val(lo, hi - 1) + DigitVal(d[hi])
        Small(v) == IF v = 0 THEN <<>> ELSE <<v>>
        RECURSIVE Range(_, _)
        Range(lo, hi) ==
            IF hi - lo < 4 THEN Small(Val(lo, hi))
            ELSE BigAdd(BigMulPow10(Range(lo, (lo + hi) \div 2), hi - (lo + hi) \div 2),
                        Range((lo + hi) \div 2 + 1, hi))
    IN  Range(1, Len(d))

\* the largest q <= est with q * d <= r, and r - q * d
RECURSIVE BigDivFit(_, _, _)
BigDivFit(r, d, est) ==
    LET p == BigMulSmall(d, est)
    IN  IF est = 0 THEN [q |-> 0, r |-> r]
        ELSE IF BigCmp(p, r) <= 0 THEN [q |-> est, r |-> BigSub(r, p)]
        ELSE BigDivFit(r, d, est - 1)

\* long division in base 2^15 over the digits hi down to lo of n, for a
\* divisor whose top digit is at least Base / 2: r is what the digits above
\* hi left (below d); a quotient digit is at most the quotient of the leading
\* digits of what is left by the top digit of d.  The quotient digits come
\* the highest first
RECURSIVE BigDivLimbs(_, _, _, _, _)
BigDivLimbs(n, d, lo, hi, r) ==
    LET r1  == IF r = <<>> /\ n[lo] = 0 THEN <<>> ELSE <<n[lo]>> \o r
        top == IF Len(r1) > Len(d) THEN r1[Len(d) + 1] * Base + r1[Len(d)]
               ELSE IF Len(r1) = Len(d) THEN r1[Len(d)]
               ELSE 0
        est == top \div d[Len(d)]
        One(f) == [q |-> <<f.q>>, r |-> f.r]
        Joined(high, low) == [q |-> high.q \o low.q, r |-> low.r]
        Low(high) == Joined(high, BigDivLimbs(n, d, lo, (lo + hi) \div 2, high.r))
    IN  IF lo > hi THEN [q |-> <<>>, r |-> r]
        ELSE IF lo = hi
        THEN One(BigDivFit(r1, d, IF est >= Base THEN Base - 1 ELSE est))
        ELSE Low(BigDivLimbs(n, d, (lo + hi) \div 2 + 1, hi, r))

\* quotient and remainder of n by d > 0
BigDivMod(n, d) ==
    LET s == LimbBits * Len(d) - BitLen(d)
        Reversed(q) == [i \in DOMAIN q |-> q[Len(q) + 1 - i]]
        Whole(qr) == [q |-> BigNorm(Reversed(qr.q)), r |-> ShiftRight(qr.r, s)]
        Digits(n1, d1) == Whole(BigDivLimbs(n1, d1, 1, Len(n1), <<>>))
    IN  Digits(ShiftLeft(n, s), ShiftLeft(d, s))

\* the decimal digits of a, without leading zeros (none for zero)
BigToDigits(a) ==
    LET Four(r) == <<DigitChar(r \div 1000), DigitChar((r \div 100) % 10),
                     DigitChar((r \div 10) % 10), DigitChar(r % 10)>>
        RECURSIVE Digits(_, _)
        Halves(qr, k) ==
            IF qr.q = <<>> THEN Zeros(k - k \div 2) \o Digits(qr.r, k \div 2)
            ELSE Digits(qr.q, k - k \div 2) \o Digits(qr.r, k \div 2)
        \* the k digits of x, which is below 10^k
        Digits(x, k) ==
            IF k <= 4 THEN SubSeq(Four(IF x = <<>> THEN 0 ELSE x[1]), 5 - k, 4)
            ELSE Halves(BigDivMod(x, BigMulPow10(<<1>>, k \div 2)), k)
    IN  DropLeadingZeros(Digits(a, (BitLen(a) * 30103) \div 100000 + 1))

(***************************************************************************)
(* Floats: float(text), repr(x), format(x, ".2f"), +, -, comparisons       *)
(*                                                                         *)
(* A float is an IEEE-754 double.  It is held under its shortest decimal   *)
(* name, the digits repr() prints: [k, neg, digs, pt] is nan, an infinity  *)
(* or the double nearest to 0.digs * 10^pt (a zero has no digits).  The    *)
(* arithmetic goes through the binary form [k, neg, man, exp], the value   *)
(* man * 2^exp with man below 2^53 and exp from -1074 to 971.              *)
(***************************************************************************)
FloatNaN == [k |-> "nan", neg |-> FALSE, digs |-> <<>>, pt |-> 0]
FloatInf(neg) == [k |-> "inf", neg |-> neg, digs |-> <<>>, pt |-> 0]
FloatZero(neg) == [k |-> "fin", neg |-> neg, digs |-> <<>>, pt |-> 0]

MantBits == 53
MinExp == -1074
MaxBits == 1024
\* a decimal of at most DBL_DIG digits names one double and is the shortest
\* name of it
DblDig == 15

BinInf(neg) == [k |-> "inf", neg |-> neg, man |-> <<>>, exp |-> 0]
BinZero(neg) == [k |-> "fin", neg |-> neg, man |-> <<>>, exp |-> MinExp]

\* man * 2^exp, exactly a double (man of at most 53 binary digits, or 2^53),
\* with the mantissa moved up as far as the least exponent allows
BinNormal(neg, man, exp) ==
    LET room == MantBits - BitLen(man)
        sh   == IF exp - room < MinExp THEN exp - MinExp ELSE room
    IN  IF man = <<>> THEN BinZero(neg)
        ELSE IF BitLen(man) + exp > MaxBits THEN BinInf(neg)
        ELSE IF room < 0
             THEN [k |-> "fin", neg |-> neg, man |-> ShiftRight(man, 0 - room),
                   exp |-> exp - room]
        ELSE [k |-> "fin", neg |-> neg, man |-> ShiftLeft(man, sh), exp |-> exp - sh]

\* the double nearest to man * 2^exp: 53 binary digits, a tie to the even
\* mantissa, gradual underflow, infinity beyond the largest double
BinRound(neg, man, exp) ==
    LET over == BitLen(man) - MantBits
        cut  == IF exp + over < MinExp THEN MinExp - exp ELSE over
    IN  BinNormal(neg, IF cut <= 0 THEN man ELSE RoundShiftRight(man, cut),
                  IF cut <= 0 THEN exp ELSE exp + cut)

\* the double nearest to num / den, for num > 0: the quotient on 54 or 55
\* binary digits, a last digit recording whether the division left
\* anything, and the rounding of that
BinOfRatio(neg, num, den) ==
    LET e0raw == BitLen(num) - BitLen(den) - (MantBits + 1)
        Sticky(qr, e0) ==
            BinRound(neg, BigMulAdd(qr.q, 2, IF qr.r = <<>> THEN 0 ELSE 1), e0 - 1)
        Quotient(e0) ==
            Sticky(BigDivMod(IF e0 < 0 THEN ShiftLeft(num, 0 - e0) ELSE num,
                             IF e0 > 0 THEN ShiftLeft(den, e0) ELSE den), e0)
    IN  Quotient(IF e0raw < MinExp - 1 THEN MinExp - 1 ELSE e0raw)

\* the double nearest to (-1)^neg * 0.digs * 10^pt, for ASCII digits that
\* start with a digit other than zero
BinOfDecimal(neg, digs, pt) ==
    BinOfRatio(neg,
               BigMulPow10(BigOfDigits(digs), IF pt >= Len(digs) THEN pt - Len(digs) ELSE 0),
               BigMulPow10(<<1>>, IF pt >= Len(digs) THEN 0 ELSE Len(digs) - pt))

\* the double under a name
Bin(x) ==
    IF x.k # "fin" THEN [k |-> x.k, neg |-> x.neg, man |-> <<>>, exp |-> 0]
    ELSE IF x.digs = <<>> THEN BinZero(x.neg)
    ELSE BinOfDecimal(x.neg, x.digs, x.pt)

\* the digit floor(r / s) and what is left of r, for r < 10 * s
DigitOf(r, s) ==
    LET top == IF Len(r) > Len(s) THEN r[Len(s) + 1] * Base + r[Len(s)]
               ELSE IF Len(r) = Len(s) THEN r[Len(s)]
               ELSE 0
        est == top \div s[Len(s)]
    IN  BigDivFit(r, s, IF est > 9 THEN 9 ELSE est)

\* the digits of the shortest decimal between (r - mm) / s and (r + mp) / s,
\* nearest to r / s; the ends count when the mantissa is even.  st holds what
\* is left of r, the two distances, the digits found and whether the last of
\* them is among these; at most k more digits are looked for
RECURSIVE ShortestDigits(_, _, _, _)
ShortestDigits(st, s, even, k) ==
    LET More(dr) ==
            [r |-> dr.r, mp |-> BigMulSmall(st.mp, 10), mm |-> BigMulSmall(st.mm, 10),
             digs |-> Append(st.digs, DigitChar(dr.q)), done |-> FALSE]
        End(q) == [st EXCEPT !.digs = Append(st.digs, DigitChar(q)), !.done = TRUE]
        Last(dr, low, high) ==
            IF ~low /\ ~high THEN More(dr)
            ELSE IF low /\ ~high THEN End(dr.q)
            ELSE IF high /\ ~low THEN End(dr.q + 1)
            ELSE IF BigCmp(BigMulSmall(dr.r, 2), s) < 0 THEN End(dr.q)
            ELSE End(dr.q + 1)
        Ends(dr, cl, ch) ==
            Last(dr, IF even THEN cl <= 0 ELSE cl < 0, IF even THEN ch >= 0 ELSE ch > 0)
        Digit(dr) ==
            Ends(dr, BigCmp(dr.r, BigMulSmall(st.mm, 10)),
                 BigCmp(BigAdd(dr.r, BigMulSmall(st.mp, 10)), s))
    IN  IF st.done \/ k = 0 THEN st
        ELSE IF k = 1 THEN Digit(DigitOf(BigMulSmall(st.r, 10), s))
        ELSE ShortestDigits(ShortestDigits(st, s, even, k \div 2), s, even, k - k \div 2)

\* the power of ten pt with (r + mp) / s in [1/10, 1), and the digits from
\* there, of which a double has at most 17
RECURSIVE ShortestScaled(_, _, _, _, _, _)
ShortestScaled(r, s, mp, mm, even, pt) ==
    LET c1   == BigCmp(BigAdd(r, mp), s)
        c10  == BigCmp(BigMulSmall(BigAdd(r, mp), 10), s)
        \* the four numbers doubled until the top digit of s is Base / 2 or more
        sh   == LimbBits * Len(s) - BitLen(s)
    IN  IF (IF even THEN c1 >= 0 ELSE c1 > 0)
        THEN ShortestScaled(r, BigMulSmall(s, 10), mp, mm, even, pt + 1)
        ELSE IF ~(IF even THEN c10 >= 0 ELSE c10 > 0)
        THEN ShortestScaled(BigMulSmall(r, 10), s, BigMulSmall(mp, 10),
                            BigMulSmall(mm, 10), even, pt - 1)
        ELSE [digs |-> ShortestDigits([r |-> ShiftLeft(r, sh), mp |-> ShiftLeft(mp, sh),
                                        mm |-> ShiftLeft(mm, sh), digs |-> <<>>,
                                        done |-> FALSE],
                                       ShiftLeft(s, sh), even, 17).digs,
              pt |-> pt]

\* the shortest decimal that names the double man * 2^exp and no other, the
\* nearest of them to the double: the digits of repr()
Shortest(man, exp) ==
    LET \* a power of two: the double below is half as far as the one above
        narrow == BitLen(man) = MantBits /\ LowBitsZero(man, MantBits - 1) /\ exp > MinExp
        up     == IF narrow THEN 2 ELSE 1
        above  == IF exp > 0 THEN exp ELSE 0
        below  == IF exp < 0 THEN 0 - exp ELSE 0
        est    == ((BitLen(man) + exp - 1) * 30103) \div 100000
        num10  == IF est < 0 THEN 0 - est ELSE 0
        den10  == IF est > 0 THEN est ELSE 0
    IN  ShortestScaled(BigMulPow10(ShiftLeft(man, up + above), num10),
                       BigMulPow10(ShiftLeft(<<1>>, up + below), den10),
                       BigMulPow10(ShiftLeft(<<1>>, above + up - 1), num10),
                       BigMulPow10(ShiftLeft(<<1>>, above), num10),
                       BitAt(man, 0) = 0, est)

\* the name of a double
FromBin(b) ==
    LET Named(sd) ==
            [k |-> "fin", neg |-> b.neg, digs |-> DropTrailingZeros(sd.digs), pt |-> sd.pt]
    IN  IF b.k = "nan" THEN FloatNaN
        ELSE IF b.k = "inf" THEN FloatInf(b.neg)
        ELSE IF b.man = <<>> THEN FloatZero(b.neg)
        ELSE Named(Shortest(b.man, b.exp))

\* the double nearest to (-1)^neg * int(digits) * 10^exp10, digits in ASCII
MkFinite(neg, digits, exp10) ==
    LET d1 == DropLeadingZeros(digits)
        d2 == DropTrailingZeros(d1)
        pt == Len(d1) + exp10
    IN  \* beyond the range of a double (1.8e308, 4.9e-324): 0.0 or inf
        IF d1 = <<>> \/ pt < -323 THEN FloatZero(neg)
        ELSE IF pt > 309 THEN FloatInf(neg)
        ELSE IF Len(d2) <= DblDig /\ pt >= -290 /\ pt <= 290
             THEN [k |-> "fin", neg |-> neg, digs |-> d2, pt |-> pt]
        ELSE FromBin(BinOfDecimal(neg, d2, pt))

\* digits with single underscores between digits ("1_000")
IsDigitPart(s) ==
    /\ s # <<>>
    /\ IsDigit(s[1])
    /\ IsDigit(s[Len(s)])
    /\ \A i \in DOMAIN s : IsDigit(s[i]) \/ s[i] = "_"
    /\ \A i \in 1..(Len(s) - 1) : ~(s[i] = "_" /\ s[i + 1] = "_")

RemoveUnderscores(s) == SelectSeq(s, LAMBDA c : c # "_")

InfWords == {<<"i", "n", "f">>, <<"i", "n", "f", "i", "n", "i", "t", "y">>}
NanWord == <<"n", "a", "n">>

\* the exponent of a float literal: beyond nine digits it counts as
\* MAX_ABS_EXP, which is past every double
MAX_ABS_EXP == 1100000000
AbsExp(edig) ==
    LET d == DropLeadingZeros(edig)
        RECURSIVE Upto(_)
        Upto(n) == IF n = 0 THEN 0 ELSE 10 * Upto(n - 1) + DigitVal(d[n])
    IN  IF Len(d) > 9 THEN MAX_ABS_EXP ELSE Upto(Len(d))

\* float(text): [ok |-> FALSE] stands for ValueError
ParseFloat(text) ==
    LET \* what is written: k is "inf", "nan", "fin" for the number
        \* (-1)^neg * int(digits) * 10^exp10, or "bad"
        Bad == [k |-> "bad", neg |-> FALSE, digits |-> <<>>, exp10 |-> 0]
        Word(k, neg) == [k |-> k, neg |-> neg, digits |-> <<>>, exp10 |-> 0]
        \* the digits before and after the point, and of the exponent
        Digits(neg, ip, fp, eneg, edig) ==
            [k |-> "fin", neg |-> neg, digits |-> ip \o fp,
             exp10 |-> (IF eneg THEN 0 - AbsExp(edig) ELSE AbsExp(edig)) - Len(fp)]
        Number(neg, ip, fp, eneg, expOk, edig) ==
            IF /\ ip = <<>> \/ IsDigitPart(ip)
               /\ fp = <<>> \/ IsDigitPart(fp)
               /\ ~(ip = <<>> /\ fp = <<>>)
               /\ expOk
            THEN Digits(neg, RemoveUnderscores(ip), RemoveUnderscores(fp), eneg,
                        RemoveUnderscores(edig))
            ELSE Bad
        Exponent(neg, mant, dot, epos, expo, edig) ==
            Number(neg,
                   IF dot = 0 THEN mant ELSE SubSeq(mant, 1, dot - 1),
                   IF dot = 0 THEN <<>> ELSE SubSeq(mant, dot + 1, Len(mant)),
                   expo # <<>> /\ Head(expo) = "-",
                   epos = 0 \/ IsDigitPart(edig), edig)
        Mantissa(neg, mant, epos, expo) ==
            Exponent(neg, mant, IndexOf(mant, "."), epos, expo,
                     IF expo # <<>> /\ Head(expo) \in {"+", "-"} THEN Tail(expo) ELSE expo)
        Split(neg, body, epos) ==
            Mantissa(neg,
                     IF epos = 0 THEN body ELSE SubSeq(body, 1, epos - 1), epos,
                     IF epos = 0 THEN <<>> ELSE SubSeq(body, epos + 1, Len(body)))
        Body(neg, body) ==
            IF body \in InfWords THEN Word("inf", neg)
            ELSE IF body = NanWord THEN Word("nan", neg)
            ELSE Split(neg, body, IndexOf(body, "e"))
        Signed(t) ==
            Body(t # <<>> /\ Head(t) = "-",
                 LowerText(AsciiDigits(IF t # <<>> /\ Head(t) \in {"+", "-"}
                                       THEN Tail(t) ELSE t)))
        Value(p) ==
            IF p.k = "bad" THEN [ok |-> FALSE, val |-> FloatNaN]
            ELSE IF p.k = "inf" THEN [ok |-> TRUE, val |-> FloatInf(p.neg)]
            ELSE IF p.k = "nan" THEN [ok |-> TRUE, val |-> FloatNaN]
            ELSE [ok |-> TRUE, val |-> MkFinite(p.neg, p.digits, p.exp10)]
    IN  Value(Signed(Strip(text)))

SignText(x) == IF x.neg THEN <<"-">> ELSE <<>>

\* repr(x) of a float, which is also str(x): the text csv writes for an amount
FloatRepr(x) ==
    LET n == Len(x.digs)
        e == x.pt - 1
        eabs == IF e < 0 THEN 0 - e ELSE e
        etxt == IF eabs < 10 THEN <<"0">> \o IntToDigits(eabs) ELSE IntToDigits(eabs)
    IN  IF x.k = "nan" THEN NanWord
        ELSE IF x.k = "inf" THEN SignText(x) \o <<"i", "n", "f">>
        ELSE IF n = 0 THEN SignText(x) \o <<"0", ".", "0">>
        ELSE IF x.pt > -4 /\ x.pt <= 16
             THEN IF x.pt <= 0
                  THEN SignText(x) \o <<"0", ".">> \o Zeros(0 - x.pt) \o x.digs
                  ELSE IF x.pt >= n
                  THEN SignText(x) \o x.digs \o Zeros(x.pt - n) \o <<".", "0">>
                  ELSE SignText(x) \o SubSeq(x.digs, 1, x.pt) \o <<".">>
                       \o SubSeq(x.digs, x.pt + 1, n)
             ELSE SignText(x) \o <<x.digs[1]>>
                  \o (IF n > 1 THEN <<".">> \o SubSeq(x.digs, 2, n) ELSE <<>>)
                  \o <<"e", IF e < 0 THEN "-" ELSE "+">> \o etxt

FloatIsZero(x) == x.k = "fin" /\ x.digs = <<>>

FloatNeg(x) == IF x.k = "nan" THEN x ELSE [x EXCEPT !.neg = ~x.neg]
FloatAbs(x) == [x EXCEPT !.neg = FALSE]

\* the sum of two finite doubles, rounded to a double
BinAdd(a, b) ==
    LET e == IF a.exp < b.exp THEN a.exp ELSE b.exp
        \* c is -1, 0, 1 as A is below, equal to, above B
        Sum(A, B, c) ==
            IF a.neg # b.neg /\ c = 0 THEN BinZero(FALSE)
            ELSE BinRound(IF a.neg = b.neg \/ c > 0 THEN a.neg ELSE b.neg,
                          IF a.neg = b.neg THEN BigAdd(A, B)
                          ELSE IF c > 0 THEN BigSub(A, B) ELSE BigSub(B, A),
                          e)
        Aligned(A, B) == Sum(A, B, BigCmp(A, B))
    IN  IF a.man = <<>> /\ b.man = <<>> THEN BinZero(a.neg /\ b.neg)
        ELSE IF a.man = <<>> THEN b
        ELSE IF b.man = <<>> THEN a
        \* an operand below a quarter of the other's last binary digit is lost
        ELSE IF a.exp - b.exp > MantBits + 2 THEN a
        ELSE IF b.exp - a.exp > MantBits + 2 THEN b
        ELSE Aligned(ShiftLeft(a.man, a.exp - e), ShiftLeft(b.man, b.exp - e))

\* x + y in IEEE arithmetic
FloatAdd(x, y) ==
    IF x.k = "nan" \/ y.k = "nan" THEN FloatNaN
    ELSE IF x.k = "inf" /\ y.k = "inf"
         THEN IF x.neg = y.neg THEN x ELSE FloatNaN
    ELSE IF x.k = "inf" THEN x
    ELSE IF y.k = "inf" THEN y
    ELSE FromBin(BinAdd(Bin(x), Bin(y)))

FloatSub(x, y) == FloatAdd(x, FloatNeg(y))

\* x < 0 and x >= 0 (both false of nan; -0.0 is not below 0)
FloatLtZero(x) == x.k # "nan" /\ x.neg /\ ~FloatIsZero(x)
FloatGeZero(x) == x.k # "nan" /\ (~x.neg \/ FloatIsZero(x))

\* format(x, ".2f"): the double's own value, which is seldom the decimal of
\* its name, rounded to the nearest hundredth, a tie to the even one
Format2f(x) ==
    LET Text(txt) ==
            SignText(x) \o SubSeq(txt, 1, Len(txt) - 2) \o <<".">>
            \o SubSeq(txt, Len(txt) - 1, Len(txt))
        Padded(d) == Text(IF Len(d) < 3 THEN Zeros(3 - Len(d)) \o d ELSE d)
        Hundredths(b) ==
            Padded(BigToDigits(IF b.exp >= 0 THEN ShiftLeft(BigMulSmall(b.man, 100), b.exp)
                               ELSE RoundShiftRight(BigMulSmall(b.man, 100), 0 - b.exp)))
    IN  IF x.k = "nan" THEN NanWord
        ELSE IF x.k = "inf" THEN SignText(x) \o <<"i", "n", "f">>
        ELSE Hundredths(Bin(x))

(***************************************************************************)
(* Dates: datetime.datetime.strptime(text, '%Y-%m-%d')                     *)
(***************************************************************************)
IsLeap(y) == y % 4 = 0 /\ (y % 100 # 0 \/ y % 400 = 0)

DaysInMonth(y, m) ==
    IF m = 2 THEN (IF IsLeap(y) THEN 29 ELSE 28)
    ELSE IF m \in {4, 6, 9, 11} THEN 30 ELSE 31

\* s[i] when i is inside s, a character matching nothing otherwise
At(s, i) == IF i \in DOMAIN s THEN s[i] ELSE "<end>"

\* the regex group (?P<m>1[0-2]|0[1-9]|[1-9]) at position i: the length of
\* the alternative that lets the rest of the pattern ("-") match, 0 if none
MonthLen(s, i) ==
    IF At(s, i) = "1" /\ At(s, i + 1) \in {"0", "1", "2"} /\ At(s, i + 2) = "-" THEN 2
    ELSE IF At(s, i) = "0" /\ IsAsciiDigit(At(s, i + 1)) /\ At(s, i + 1) # "0"
            /\ At(s, i + 2) = "-" THEN 2
    ELSE IF IsAsciiDigit(At(s, i)) /\ At(s, i) # "0" /\ At(s, i + 1) = "-" THEN 1
    ELSE 0

\* the regex group (?P<d>3[0-1]|[1-2]\d|0[1-9]|[1-9]| [1-9]) at position i:
\* the length of the first alternative that matches, 0 if none (\d is any
\* decimal digit, a class such as [1-9] holds ASCII digits only)
DayLen(s, i) ==
    IF At(s, i) = "3" /\ At(s, i + 1) \in {"0", "1"} THEN 2
    ELSE IF At(s, i) \in {"1", "2"} /\ IsDigit(At(s, i + 1)) THEN 2
    ELSE IF At(s, i) = "0" /\ IsAsciiDigit(At(s, i + 1)) /\ At(s, i + 1) # "0" THEN 2
    ELSE IF IsAsciiDigit(At(s, i)) /\ At(s, i) # "0" THEN 1
    ELSE IF At(s, i) = " " /\ IsAsciiDigit(At(s, i + 1)) /\ At(s, i + 1) # "0" THEN 2
    ELSE 0

\* int() of the group (?P<Y>\d\d\d\d) at the start of s
YearOf(s) ==
    1000 * DigitVal(s[1]) + 100 * DigitVal(s[2]) + 10 * DigitVal(s[3]) + DigitVal(s[4])

\* int() of a month or day group of n characters at position i (int() skips
\* the space of " 5")
GroupVal(s, i, n) ==
    IF n = 1 THEN DigitVal(s[i])
    ELSE (IF s[i] = " " THEN 0 ELSE 10 * DigitVal(s[i])) + DigitVal(s[i + 1])

\* strptime(text, '%Y-%m-%d') returns a date (TRUE) or raises ValueError (FALSE)
Strptime(s) ==
    LET ml == MonthLen(s, 6)
        dl == DayLen(s, 6 + ml + 1)
    IN  /\ \A i \in 1..4 : IsDigit(At(s, i))
        /\ At(s, 5) = "-"
        /\ ml > 0
        /\ dl > 0
        /\ Len(s) = 6 + ml + dl
        /\ YearOf(s) >= 1
        /\ GroupVal(s, 6 + ml + 1, dl) <= DaysInMonth(YearOf(s), GroupVal(s, 6, ml))

(***************************************************************************)
(* The csv module, dialect "excel": delimiter ",", quotechar QUOTE,         *)
(* doublequote, lineterminator CR LF, QUOTE_MINIMAL, not strict            *)
(***************************************************************************)
FIELDNAMES == << <<"d", "a", "t", "e">>,
                 <<"c", "a", "t", "e", "g", "o", "r", "y">>,
                 <<"a", "m", "o", "u", "n", "t">>,
                 <<"d", "e", "s", "c", "r", "i", "p", "t", "i", "o", "n">> >>

\* QUOTE_MINIMAL: a field holding the delimiter, the quotechar or a character
\* of the lineterminator is quoted
NeedsQuote(s) == \E i \in DOMAIN s : s[i] \in {COMMA, QUOTE, CR, LF}

\* doublequote: every quotechar inside a field is written twice
DoubleQuotes(s) ==
    LET RECURSIVE Range(_, _)
        Range(lo, hi) ==
            IF lo > hi THEN <<>>
            ELSE IF lo = hi THEN (IF s[lo] = QUOTE THEN <<QUOTE, QUOTE>> ELSE <<s[lo]>>)
            ELSE Range(lo, (lo + hi) \div 2) \o Range((lo + hi) \div 2 + 1, hi)
    IN  Range(1, Len(s))

WriteField(s) ==
    IF NeedsQuote(s) THEN <<QUOTE>> \o DoubleQuotes(s) \o <<QUOTE>> ELSE s

RECURSIVE JoinFields(_)
JoinFields(fields) ==
    IF Len(fields) = 1 THEN WriteField(fields[1])
    ELSE WriteField(Head(fields)) \o <<COMMA>> \o JoinFields(Tail(fields))

\* csv.writer.writerow: the fields, comma-joined, then the lineterminator
\* (a row of one empty field is written as an empty quoted field)
WriteRow(fields) ==
    (IF fields = << <<>> >> THEN <<QUOTE, QUOTE>> ELSE JoinFields(fields))
    \o <<CR, LF>>

\* DictWriter._dict_to_list: the values in fieldnames order, the float through str()
DictToList(expense) ==
    <<expense.date, expense.category, FloatRepr(expense.amount), expense.description>>

\* csv.DictWriter.writerows: the rows one after the other
WriteRows(expenses_list) ==
    LET RECURSIVE Range(_, _)
        Range(lo, hi) ==
            IF lo > hi THEN <<>>
            ELSE IF lo = hi THEN WriteRow(DictToList(expenses_list[lo]))
            ELSE Range(lo, (lo + hi) \div 2) \o Range((lo + hi) \div 2 + 1, hi)
    IN  Range(1, Len(expenses_list))

\* iterating a file opened with newline='': a line ends after LF, CR LF or a
\* lone CR and keeps its ending; the last line may have none
LineEnds(data) ==
    LET IsEnd(i) ==
            \/ data[i] = LF
            \/ data[i] = CR /\ (i = Len(data) \/ data[i + 1] # LF)
            \/ i = Len(data)
        RECURSIVE Range(_, _)
        Range(lo, hi) ==
            IF lo > hi THEN <<>>
            ELSE IF lo = hi THEN (IF IsEnd(lo) THEN <<lo>> ELSE <<>>)
            ELSE Range(lo, (lo + hi) \div 2) \o Range((lo + hi) \div 2 + 1, hi)
    IN  Range(1, Len(data))

SplitLines(data) ==
    LET Lines(ends) ==
            [k \in DOMAIN ends |->
                SubSeq(data, IF k = 1 THEN 1 ELSE ends[k - 1] + 1, ends[k])]
    IN  Lines(LineEnds(data))

EOL == "<eol>"

\* csv.field_size_limit()
field_size_limit == 131072

ReaderReset == [state |-> "START_RECORD", field |-> <<>>, fields |-> <<>>]

SaveField(st, next) ==
    [state |-> next, field |-> <<>>, fields |-> Append(st.fields, st.field)]
\* parse_add_char: a field of field_size_limit characters takes no more
\* ("field larger than field limit")
AddChar(st, c, next) ==
    IF Len(st.field) >= field_size_limit THEN [st EXCEPT !.state = "ERROR"]
    ELSE [state |-> next, field |-> Append(st.field, c), fields |-> st.fields]
AfterLine(c) == IF c = EOL THEN "START_RECORD" ELSE "EAT_CRNL"

\* _csv.c parse_process_char: one step of the reader's state machine
ParseProcessChar(st, c) ==
    IF st.state = "START_RECORD" /\ c = EOL THEN st
    ELSE IF st.state = "START_RECORD" /\ c \in {LF, CR}
         THEN [st EXCEPT !.state = "EAT_CRNL"]
    ELSE IF st.state \in {"START_RECORD", "START_FIELD"}
         THEN IF c \in {LF, CR, EOL} THEN SaveField(st, AfterLine(c))
              ELSE IF c = QUOTE THEN [st EXCEPT !.state = "IN_QUOTED_FIELD"]
              ELSE IF c = COMMA THEN SaveField(st, "START_FIELD")
              ELSE AddChar(st, c, "IN_FIELD")
    ELSE IF st.state = "IN_FIELD"
         THEN IF c \in {LF, CR, EOL} THEN SaveField(st, AfterLine(c))
              ELSE IF c = COMMA THEN SaveField(st, "START_FIELD")
              ELSE AddChar(st, c, "IN_FIELD")
    ELSE IF st.state = "IN_QUOTED_FIELD"
         THEN IF c = EOL THEN st
              ELSE IF c = QUOTE THEN [st EXCEPT !.state = "QUOTE_IN_QUOTED_FIELD"]
              ELSE AddChar(st, c, "IN_QUOTED_FIELD")
    ELSE IF st.state = "QUOTE_IN_QUOTED_FIELD"
         THEN IF c = QUOTE THEN AddChar(st, c, "IN_QUOTED_FIELD")
              ELSE IF c = COMMA THEN SaveField(st, "START_FIELD")
              ELSE IF c \in {LF, CR, EOL} THEN SaveField(st, AfterLine(c))
              ELSE AddChar(st, c, "IN_FIELD")
    ELSE IF st.state = "EAT_CRNL"
         THEN IF c \in {LF, CR} THEN st
              ELSE IF c = EOL THEN [st EXCEPT !.state = "START_RECORD"]
              ELSE [st EXCEPT !.state = "ERROR"]
    ELSE st

\* the characters lo..hi of a line, in order, up to the first that fails
\* ("new-line character seen in unquoted field", which no line of a file
\* opened with newline='' brings about)
RECURSIVE ProcessChars(_, _, _, _)
ProcessChars(st, line, lo, hi) ==
    IF lo > hi THEN st
    ELSE IF lo = hi THEN ParseProcessChar(st, line[lo])
    ELSE LET mid  == (lo + hi) \div 2
             left == ProcessChars(st, line, lo, mid)
         IN  IF left.state = "ERROR" THEN left
             ELSE ProcessChars(left, line, mid + 1, hi)

\* the loop body of Reader_iternext: every character of the line, then EOL
ProcessLine(st, line) ==
    ParseProcessChar(ProcessChars(st, line, 1, Len(line)), EOL)

\* Reader_iternext on one more line: s is the reader between two lines, st
\* its state, rows the records it has returned, error whether it has raised
\* csv.Error; a line that leaves the state machine at START_RECORD ends a
\* record, and the reader starts the next one afresh
ReaderNext(s, line) ==
    LET Fed(st2) ==
            IF st2.state = "ERROR" THEN [s EXCEPT !.error = TRUE]
            ELSE IF st2.state = "START_RECORD"
            THEN [st |-> ReaderReset, rows |-> Append(s.rows, st2.fields),
                  error |-> FALSE]
            ELSE [s EXCEPT !.st = st2]
    IN  Fed(ProcessLine(s.st, line))

\* the lines lo..hi in order, up to a csv.Error
RECURSIVE ReaderFeed(_, _, _, _)
ReaderFeed(s, lines, lo, hi) ==
    IF s.error \/ lo > hi THEN s
    ELSE IF lo = hi THEN ReaderNext(s, lines[lo])
    ELSE ReaderFeed(ReaderFeed(s, lines, lo, (lo + hi) \div 2), lines,
                    (lo + hi) \div 2 + 1, hi)

\* list(reader): every record of the lines, rows, up to a csv.Error, error;
\* at the end of the input an open field is saved as it stands
ReadRows(lines) ==
    LET AtEnd(s) ==
            IF ~s.error /\ (s.st.field # <<>> \/ s.st.state = "IN_QUOTED_FIELD")
            THEN [rows |-> Append(s.rows, Append(s.st.fields, s.st.field)),
                  error |-> FALSE]
            ELSE [rows |-> s.rows, error |-> s.error]
    IN  AtEnd(ReaderFeed([st |-> ReaderReset, rows |-> <<>>, error |-> FALSE],
                         lines, 1, Len(lines)))

(***************************************************************************)
(* The record store                                                        *)
(***************************************************************************)
NoFile == [exists |-> FALSE, data |-> <<>>]
FileOf(data) == [exists |-> TRUE, data |-> data]

Loaded(list) == [ok |-> TRUE, err |-> "", list |-> list]
Raised(err) == [ok |-> FALSE, err |-> err, list |-> <<>>]

\* the dict display of lines 21-26, evaluated left to right
RowError(row) ==
    IF Len(row) < 3 THEN "IndexError"
    ELSE IF ~ParseFloat(row[3]).ok THEN "ValueError"
    ELSE IF Len(row) < 4 THEN "IndexError"
    ELSE ""

RowExpense(row) ==
    [date |-> row[1], category |-> row[2],
     amount |-> ParseFloat(row[3]).val, description |-> row[4]]

\* a loop that stops at the first bad row and returns the rows before it
LoadRows_partial(rows, error) ==
    LET First(bad) == IF bad = {} THEN Len(rows) + 1
                      ELSE CHOOSE i \in bad : \A j \in bad : i <= j
        Result(errs, n) ==
            IF n > Len(rows) /\ error THEN Raised("Error")
            ELSE Loaded([i \in 1..(n - 1) |-> RowExpense(rows[i])])
        Checked(errs) == Result(errs, First({i \in DOMAIN rows : errs[i] # ""}))
    IN  Checked([i \in DOMAIN rows |-> RowError(rows[i])])

\* the for loop of lines 19-27 over the records after the header, error
\* telling whether the reader raises csv.Error after them: the first row
\* that cannot be converted raises
LoadRows(rows, error) ==
    LET First(bad) == IF bad = {} THEN Len(rows) + 1
                      ELSE CHOOSE i \in bad : \A j \in bad : i <= j
        Result(errs, n) ==
            IF n <= Len(rows) THEN Raised(errs[n])
            ELSE IF error THEN Raised("Error")
            ELSE Loaded([i \in DOMAIN rows |-> RowExpense(rows[i])])
        Checked(errs) == Result(errs, First({i \in DOMAIN rows : errs[i] # ""}))
    IN  Checked([i \in DOMAIN rows |-> RowError(rows[i])])

\* lines 16-27, the body of the try: next(reader) skips the header record
LoadFile(data) ==
    LET Body(read) ==
            IF read.rows = <<>>
            THEN Raised(IF read.error THEN "Error" ELSE "StopIteration")
            ELSE LoadRows(Tail(read.rows), read.error)
    IN  Body(ReadRows(SplitLines(data)))

\* a load without the except clause
load_expenses_uncaught(f) ==
    IF ~f.exists THEN Raised("FileNotFoundError") ELSE LoadFile(f.data)

\* lines 14-31: FileNotFoundError, and nothing else, is caught
load_expenses(f) ==
    IF ~f.exists THEN Loaded(<<>>) ELSE LoadFile(f.data)

\* the characters the writer of a file opened in the UTF-8 locale cannot
\* encode: the surrogates U+D800 to U+DFFF
Surrogates ==
    LET hex == {"0", "1", "2", "3", "4", "5", "6", "7", "8", "9", "A", "B", "C", "D",
                "E", "F"}
    IN  {"U+D" \o a \o b \o c : a \in {"8", "9", "A", "B", "C", "D", "E", "F"},
                                b \in hex, c \in hex}

\* (a character written as itself is ASCII)
Encodable(text) == \A i \in DOMAIN text : Len(text[i]) = 1 \/ text[i] \notin Surrogates

Saved(f) == [ok |-> TRUE, err |-> "", file |-> f]
SaveRaised(err, f) == [ok |-> FALSE, err |-> err, file |-> f]

\* writerows: the rows up to the first whose text cannot be encoded, which
\* raises UnicodeEncodeError and leaves the file with the rows before it
RowsWritten(expenses_list) ==
    LET bad == {i \in DOMAIN expenses_list :
                    ~Encodable(WriteRow(DictToList(expenses_list[i])))}
    IN  IF bad = {} THEN Len(expenses_list)
        ELSE (CHOOSE i \in bad : \A j \in bad : i <= j) - 1

\* a save in mode 'r+' or 'w+' without truncation: what the old contents
\* had beyond the new ones stays
save_expenses_in_place(f, expenses_list) ==
    LET n   == RowsWritten(expenses_list)
        new == WriteRow(FIELDNAMES) \o WriteRows(SubSeq(expenses_list, 1, n))
        res == FileOf(new \o SubSeq(f.data, Len(new) + 1, Len(f.data)))
    IN  IF n = Len(expenses_list) THEN Saved(res)
        ELSE SaveRaised("UnicodeEncodeError", res)

\* a save in mode 'a'
save_expenses_append(f, expenses_list) ==
    LET n   == RowsWritten(expenses_list)
        res == FileOf(f.data \o WriteRow(FIELDNAMES)
                      \o WriteRows(SubSeq(expenses_list, 1, n)))
    IN  IF n = Len(expenses_list) THEN Saved(res)
        ELSE SaveRaised("UnicodeEncodeError", res)

\* lines 40-45: mode 'w' truncates the file, then the header and the rows
\* are written; a row that cannot be encoded ends the call with the header
\* and the rows before it in the file
save_expenses(f, expenses_list) ==
    LET n   == RowsWritten(expenses_list)
        res == FileOf(WriteRow(FIELDNAMES) \o WriteRows(SubSeq(expenses_list, 1, n)))
    IN  IF n = Len(expenses_list) THEN Saved(res)
        ELSE SaveRaised("UnicodeEncodeError", res)

(***************************************************************************)
(* Budget arithmetic of track_budget                                       *)
(***************************************************************************)
\* sum(expense['amount'] for expense in expenses_list), from 0, left to right
\* (a sum that has become nan stays nan)
SumAmounts(expenses_list, acc) ==
    LET RECURSIVE Range(_, _, _)
        Rest(sum, lo, hi) == IF sum.k = "nan" THEN sum ELSE Range(lo, hi, sum)
        Range(lo, hi, sum) ==
            IF lo > hi THEN sum
            ELSE IF lo = hi THEN FloatAdd(sum, expenses_list[lo].amount)
            ELSE Rest(Range(lo, (lo + hi) \div 2, sum), (lo + hi) \div 2 + 1, hi)
    IN  Range(1, Len(expenses_list), acc)

total_expenses(expenses_list) == SumAmounts(expenses_list, FloatZero(FALSE))

\* line 119, total being total_expenses
remaining_balance(budget, total) == FloatSub(budget, total)

(***************************************************************************)
(* Inputs of the model                                                     *)
(***************************************************************************)
\* dates typed at the prompt of line 56
Date_2024_01_15 == <<"2", "0", "2", "4", "-", "0", "1", "-", "1", "5">>
Date_2024_2_9 == <<"2", "0", "2", "4", "-", "2", "-", " ", "9">>
Date_15_01_2024 == <<"1", "5", "-", "0", "1", "-", "2", "0", "2", "4">>
\* with them 2023-02-29, 2024-13-01, "not-a-date" and 2024-01-15 with its
\* month in ARABIC-INDIC digits
DateInputs ==
    {Date_2024_01_15, Date_2024_2_9, Date_15_01_2024,
     <<"2", "0", "2", "3", "-", "0", "2", "-", "2", "9">>,
     <<"2", "0", "2", "4", "-", "1", "3", "-", "0", "1">>,
     <<"n", "o", "t", "-", "a", "-", "d", "a", "t", "e">>,
     <<"2", "0", "2", "4", "-", "U+0660", "U+0661", "-", "1", "5">>}

\* amounts typed at the prompt of line 66
Amount_minus_12_50 == <<"-", "1", "2", ".", "5", "0">>
\* 0 written after a NO-BREAK SPACE with an ARABIC-INDIC DIGIT ZERO
Amount_0 == <<"U+00A0", "U+0660">>
Amount_abc == <<"a", "b", "c">>
\* with them nan, the line " +1e999" (a number beyond every double, read as
\* inf) and the empty line
AmountInputs ==
    {Amount_minus_12_50, Amount_0, Amount_abc, NanWord,
     <<" ", "+", "1", "e", "9", "9", "9">>, <<>>}

\* categories and descriptions typed at the prompts of lines 71 and 72
Text_a_comma_b == <<"a", ",", "b">>
\* a line with a byte that is no UTF-8, read by input() as a lone surrogate
Text_surrogate == <<"a", "U+DC80">>
CategoryInputs == {Text_surrogate, <<>>}
DescriptionInputs == {Text_a_comma_b}

\* budgets typed at the prompt of line 109
Budget_100 == <<"1", "0", "0">>
Budget_0_3 == <<"0", ".", "3">>
\* with them -1, nan, abc and 3 written after an EM SPACE with an
\* ARABIC-INDIC DIGIT THREE
BudgetInputs ==
    {Budget_100, Budget_0_3, <<"-", "1">>, NanWord, <<"a", "b", "c">>,
     <<"U+2003", "U+0663">>}

\* choices typed at the menu prompt of line 145
ChoiceInputs == {<<"1">>, <<"2">>, <<"3">>, <<"4">>, <<"5">>, <<"6">>}

\* stored files found at startup
CRLF == <<CR, LF>>
HeaderLine == JoinFields(FIELDNAMES)
Line_lunch ==
    << "2", "0", "2", "4", "-", "0", "1", "-", "1", "5", ",", "F", "o", "o",
       "d", ",", "1", "2", ".", "5", "0", ",", "L", "u", "n", "c", "h" >>
\* the amount 30.00 after a form feed and in FULLWIDTH digits
Line_bus ==
    << "2", "0", "2", "4", "-", "0", "1", "-", "1", "6", ",", "T", "r", "a",
       "v", "e", "l", ",", FF, "U+FF13", "U+FF10", ".", "U+FF10", "U+FF10", ",",
       "B", "u", "s" >>
File_lunch_bus == HeaderLine \o CRLF \o Line_lunch \o CRLF \o Line_bus \o CRLF
\* 15-01-2024,"a,b",80, and 2024-01-16,Food,50,"say ""hi""", lines ended by LF
File_80_50 ==
    HeaderLine \o CRLF
    \o << "1", "5", "-", "0", "1", "-", "2", "0", "2", "4", ",", "\"", "a", ",",
          "b", "\"", ",", "8", "0", "," >>
    \o <<LF>>
    \o << "2", "0", "2", "4", "-", "0", "1", "-", "1", "6", ",", "F", "o", "o",
          "d", ",", "5", "0", ",", "\"", "s", "a", "y", " ", "\"", "\"", "h",
          "i", "\"", "\"", "\"" >>
    \o <<LF>>
File_bad_amount ==
    HeaderLine \o CRLF \o Line_lunch \o CRLF
    \o << "2", "0", "2", "4", "-", "0", "1", "-", "1", "6", ",", "F", "o", "o",
          "d", ",", "a", "b", "c", ",", "B", "u", "s" >>
    \o CRLF
File_short_row ==
    HeaderLine \o CRLF \o Line_lunch \o CRLF
    \o << "2", "0", "2", "4", "-", "0", "1", "-", "1", "6", ",", "F", "o", "o",
          "d", ",", "3", "0", ".", "0", "0" >>
    \o CRLF
File_blank_line == HeaderLine \o CRLF \o CRLF \o Line_lunch \o CRLF

StoredFiles ==
    {NoFile, FileOf(<<>>), FileOf(File_lunch_bus), FileOf(File_80_50),
     FileOf(File_bad_amount), FileOf(File_short_row), FileOf(File_blank_line)}

\* the most add_expense calls of one session
MaxAdds == 2

(***************************************************************************)
(* State                                                                   *)
(***************************************************************************)
VARIABLES
    file,       \* expenses.csv: [exists, data]
    file0,      \* the file as it was when the program started
    pc,         \* where the program stands
    expenses,   \* main's list (R of a direct call of the store)
    loaded,     \* what the last call of load_expenses returned or raised
    date_str,   \* add_expense's locals
    amount,
    category,
    inp,        \* the line the last input() returned
    out,        \* what the last step printed, prompts and the menu aside
                \* (for an exception that nothing catches, its name)
    added       \* the records add_expense has appended, in order

vars == <<file, file0, pc, expenses, loaded, date_str, amount, category, inp,
          out, added>>

NotCalled == [ok |-> FALSE, err |-> "not called", list |-> <<>>]

\* the line msg after the line before ("" without one), and the figures of a
\* budget summary
Says(msg) ==
    [before |-> "", msg |-> msg, budget |-> <<>>, total |-> <<>>, shown |-> <<>>]
Nothing == Says("")

NoLocals ==
    /\ date_str' = <<>>
    /\ amount' = FloatZero(FALSE)
    /\ category' = <<>>

Init ==
    /\ file \in StoredFiles
    /\ file0 = file
    /\ pc = "start"
    /\ expenses = <<>>
    /\ loaded = NotCalled
    /\ date_str = <<>>
    /\ amount = FloatZero(FALSE)
    /\ category = <<>>
    /\ inp = <<>>
    /\ out = Nothing
    /\ added = <<>>

(***************************************************************************)
(* main                                                                    *)
(***************************************************************************)
\* line 135: an exception of load_expenses ends the program with a traceback
main_load ==
    /\ pc = "start"
    /\ loaded' = load_expenses(file)
    /\ IF loaded'.ok
       THEN expenses' = loaded'.list /\ pc' = "menu" /\ out' = Nothing
       ELSE expenses' = expenses /\ pc' = "crashed" /\ out' = Says(loaded'.err)
    /\ UNCHANGED <<file, file0, date_str, amount, category, inp, added>>

\* lines 145-148, choice '1': enter add_expense
main_add ==
    /\ pc = "menu"
    /\ Len(expenses) < Len(loaded.list) + MaxAdds
    /\ inp' = <<"1">>
    /\ pc' = "add_date"
    /\ out' = Nothing
    /\ UNCHANGED <<file, file0, expenses, loaded, date_str, amount, category,
                   added>>

\* lines 83-98
view_expenses(expenses_list) ==
    IF expenses_list = <<>> THEN Says("No expenses recorded yet.")
    ELSE Says("--- All Expenses ---")

\* lines 149-150, choice '2'
main_view ==
    /\ pc = "menu"
    /\ inp' = <<"2">>
    /\ out' = view_expenses(expenses)
    /\ UNCHANGED <<file, file0, pc, expenses, loaded, date_str, amount, category,
                   added>>

\* lines 151-152, choice '3': enter track_budget
main_track ==
    /\ pc = "menu"
    /\ inp' = <<"3">>
    /\ pc' = "budget"
    /\ out' = Nothing
    /\ UNCHANGED <<file, file0, expenses, loaded, date_str, amount, category,
                   added>>

\* lines 153-154, choice '4': an exception of save_expenses ends the program
main_save ==
    /\ pc = "menu"
    /\ inp' = <<"4">>
    /\ LET saved == save_expenses(file, expenses)
       IN  /\ file' = saved.file
           /\ IF saved.ok
              THEN pc' = "menu" /\ out' = Says("Expenses saved successfully!")
              ELSE pc' = "crashed" /\ out' = Says(saved.err)
    /\ UNCHANGED <<file0, expenses, loaded, date_str, amount, category, added>>

\* an exit that does not save
main_exit_unsaved ==
    /\ pc = "menu"
    /\ inp' = <<"5">>
    /\ out' = Says("Exiting the program. Goodbye!")
    /\ pc' = "done"
    /\ UNCHANGED <<file, file0, expenses, loaded, date_str, amount, category,
                   added>>

\* lines 155-158, choice '5': the save with its message (line 45), then the
\* goodbye
main_exit ==
    /\ pc = "menu"
    /\ inp' = <<"5">>
    /\ LET saved == save_expenses(file, expenses)
       IN  /\ file' = saved.file
           /\ IF saved.ok
              THEN /\ pc' = "done"
                   /\ out' = [Says("Exiting the program. Goodbye!")
                                 EXCEPT !.before = "Expenses saved successfully!"]
              ELSE pc' = "crashed" /\ out' = Says(saved.err)
    /\ UNCHANGED <<file0, expenses, loaded, date_str, amount, category,
                   added>>

\* lines 159-160: any other line
main_invalid ==
    /\ pc = "menu"
    /\ \E choice \in ChoiceInputs :
        /\ choice \notin {<<"1">>, <<"2">>, <<"3">>, <<"4">>, <<"5">>}
        /\ inp' = choice
    /\ out' = Says("Invalid choice. Please enter a number between 1 and 5.")
    /\ UNCHANGED <<file, file0, pc, expenses, loaded, date_str, amount, category,
                   added>>

(***************************************************************************)
(* add_expense                                                             *)
(***************************************************************************)
\* lines 55-61: one turn of the date loop
add_expense_date ==
    /\ pc = "add_date"
    /\ \E text \in DateInputs :
        /\ inp' = text
        /\ IF Strptime(text)
           THEN date_str' = text /\ pc' = "add_amount" /\ out' = Nothing
           ELSE /\ date_str' = text
                /\ pc' = "add_date"
                /\ out' = Says("Invalid date format. Please use YYYY-MM-DD.")
    /\ UNCHANGED <<file, file0, expenses, loaded, amount, category, added>>

\* lines 64-69: one turn of the amount loop
add_expense_amount ==
    /\ pc = "add_amount"
    /\ \E text \in AmountInputs :
        /\ inp' = text
        /\ IF ParseFloat(text).ok
           THEN amount' = ParseFloat(text).val /\ pc' = "add_category" /\ out' = Nothing
           ELSE /\ amount' = amount
                /\ pc' = "add_amount"
                /\ out' = Says("Invalid amount. Please enter a number.")
    /\ UNCHANGED <<file, file0, expenses, loaded, date_str, category, added>>

\* line 71
add_expense_category ==
    /\ pc = "add_category"
    /\ \E text \in CategoryInputs :
        /\ inp' = text
        /\ category' = text
    /\ pc' = "add_description"
    /\ out' = Nothing
    /\ UNCHANGED <<file, file0, expenses, loaded, date_str, amount, added>>

\* lines 74-79
new_expense(description) ==
    [date |-> date_str, category |-> category,
     amount |-> amount, description |-> description]

\* an add that puts the new record first
add_expense_description_first ==
    /\ pc = "add_description"
    /\ \E text \in DescriptionInputs :
        /\ inp' = text
        /\ expenses' = <<new_expense(text)>> \o expenses
        /\ added' = Append(added, new_expense(text))
    /\ out' = Says("Expense added successfully!")
    /\ pc' = "menu"
    /\ NoLocals
    /\ UNCHANGED <<file, file0, loaded>>

\* lines 72-81: the last read, the append and the return to the menu
add_expense_description ==
    /\ pc = "add_description"
    /\ \E text \in DescriptionInputs :
        /\ inp' = text
        /\ expenses' = Append(expenses, new_expense(text))
        /\ added' = Append(added, new_expense(text))
    /\ out' = Says("Expense added successfully!")
    /\ pc' = "menu"
    /\ NoLocals
    /\ UNCHANGED <<file, file0, loaded>>

(***************************************************************************)
(* track_budget                                                            *)
(***************************************************************************)
\* lines 117-129: the summary printed for an accepted budget
BudgetSummary(budget, expenses_list) ==
    LET Lines(total, rem) ==
            [before |-> "",
             msg    |-> IF FloatGeZero(rem) THEN "left for the month"
                        ELSE "exceeded your budget",
             budget |-> Format2f(budget),
             total  |-> Format2f(total),
             shown  |-> Format2f(IF FloatGeZero(rem) THEN rem ELSE FloatAbs(rem))]
        Balance(total) == Lines(total, remaining_balance(budget, total))
    IN  Balance(total_expenses(expenses_list))

\* lines 107-129: one turn of the budget loop and, once a budget is
\* accepted, the summary
track_budget ==
    /\ pc = "budget"
    /\ \E text \in BudgetInputs :
        /\ inp' = text
        /\ IF ~ParseFloat(text).ok
           THEN pc' = "budget" /\ out' = Says("Invalid amount. Please enter a number.")
           ELSE IF FloatLtZero(ParseFloat(text).val)
           THEN pc' = "budget" /\ out' = Says("Budget must be a positive number.")
           ELSE pc' = "menu" /\ out' = BudgetSummary(ParseFloat(text).val, expenses)
    /\ UNCHANGED <<file, file0, expenses, loaded, date_str, amount, category,
                   added>>

\* lines 56, 66, 71, 72, 109 and 145: input() raises EOFError at the end of
\* the input and KeyboardInterrupt at an interrupt; no except clause takes
\* either (lines 60, 68 and 114 take ValueError), so the program ends with it
input_raises ==
    /\ pc \in {"menu", "add_date", "add_amount", "add_category", "add_description",
               "budget"}
    /\ \E err \in {"EOFError", "KeyboardInterrupt"} : out' = Says(err)
    /\ pc' = "crashed"
    /\ UNCHANGED <<file, file0, expenses, loaded, date_str, amount, category, inp,
                   added>>

Next ==
    \/ main_load
    \/ main_add
    \/ main_view
    \/ main_track
    \/ main_save
    \/ main_exit
    \/ main_invalid
    \/ add_expense_date
    \/ add_expense_amount
    \/ add_expense_category
    \/ add_expense_description
    \/ track_budget
    \/ input_raises

Spec == Init /\ [][Next]_vars

(***************************************************************************)
(* The record store called directly: save_expenses(path, R) and            *)
(* load_expenses(path) on a path holding any earlier file and a list R of  *)
(* records drawn from StoreRecords                                         *)
(***************************************************************************)
Text_Food == <<"F", "o", "o", "d">>
Text_Lunch == <<"L", "u", "n", "c", "h">>
Text_say_hi == <<"s", "a", "y", " ", QUOTE, "h", "i", QUOTE>>
Text_two_lines == <<"a", CR, LF, "b">>

Float_12_5 == ParseFloat(<<"1", "2", ".", "5", "0">>).val
Float_0_1 == ParseFloat(<<"0", ".", "1">>).val

StoreRecords ==
    {[date |-> Date_2024_01_15, category |-> Text_Food,
      amount |-> Float_12_5, description |-> Text_Lunch],
     [date |-> Date_2024_2_9, category |-> Text_a_comma_b,
      amount |-> ParseFloat(<<"-", "5">>).val, description |-> Text_say_hi],
     [date |-> Date_2024_01_15, category |-> <<>>,
      amount |-> ParseFloat(<<"-", "0">>).val, description |-> Text_two_lines],
     [date |-> Date_2024_01_15, category |-> <<" ", "x", " ">>,
      amount |-> Float_0_1, description |-> <<QUOTE>>],
     [date |-> Date_2024_01_15, category |-> Text_Food,
      amount |-> ParseFloat(<<"1", "e", "1", "6">>).val, description |-> <<>>],
     [date |-> Date_2024_2_9, category |-> <<COMMA>>,
      amount |-> ParseFloat(<<"1", "2", "3", "4", ".", "5", "6", "7", "8">>).val, description |-> <<LF>>],
     [date |-> Date_2024_01_15, category |-> Text_Food,
      amount |-> FloatNaN, description |-> Text_Lunch],
     [date |-> Date_2024_01_15, category |-> Text_Food,
      amount |-> Float_12_5, description |-> Text_surrogate]}

\* the longest list R handed to the store
MaxRecords == 2

PriorFiles == {NoFile, FileOf(File_80_50), FileOf(<<"j", "u", "n", "k">>)}

InitStore ==
    /\ file \in PriorFiles
    /\ file0 = file
    /\ pc = "ready"
    /\ expenses \in UNION {[1..n -> StoreRecords] : n \in 0..MaxRecords}
    /\ loaded = NotCalled
    /\ date_str = <<>>
    /\ amount = FloatZero(FALSE)
    /\ category = <<>>
    /\ inp = <<>>
    /\ out = Nothing
    /\ added = <<>>

\* save_expenses(path, R), lines 33-45, and once more with the same arguments
store_save ==
    /\ pc \in {"ready", "saved", "raised"}
    /\ LET saved == save_expenses(file, expenses)
       IN  /\ file' = saved.file
           /\ IF saved.ok
              THEN /\ pc' = (IF pc = "ready" THEN "saved" ELSE "saved_again")
                   /\ out' = Says("Expenses saved successfully!")
              ELSE /\ pc' = (IF pc = "ready" THEN "raised" ELSE "raised_again")
                   /\ out' = Says(saved.err)
    /\ loaded' = NotCalled
    /\ UNCHANGED <<file0, expenses, date_str, amount, category, inp, added>>

\* load_expenses(path), lines 6-31
store_load ==
    /\ pc \in {"ready", "saved", "saved_again", "raised", "raised_again"}
    /\ loaded = NotCalled
    /\ loaded' = load_expenses(file)
    /\ out' = IF loaded'.ok THEN Nothing ELSE Says(loaded'.err)
    /\ UNCHANGED <<file, file0, pc, expenses, date_str, amount, category, inp,
                   added>>

NextStore == store_save \/ store_load

StoreSpec == InitStore /\ [][NextStore]_vars

(***************************************************************************)
(* track_budget called on a list of records with amounts drawn from        *)
(* BudgetAmounts                                                           *)
(***************************************************************************)
Float_0_2 == ParseFloat(<<"0", ".", "2">>).val

\* 0.1, 0.2, 12.5, 30.00, 80 and 50
BudgetAmounts ==
    {Float_0_1, Float_0_2, Float_12_5, ParseFloat(<<"3", "0", ".", "0", "0">>).val,
     ParseFloat(<<"8", "0">>).val, ParseFloat(<<"5", "0">>).val}

BudgetRecords ==
    {[date |-> Date_2024_01_15, category |-> Text_Food, amount |-> a,
      description |-> <<>>] : a \in BudgetAmounts}

\* the longest list handed to track_budget
MaxAmounts == 2

\* a session without a stored file at choice '3', its records added before
InitBudget ==
    /\ file = NoFile
    /\ file0 = file
    /\ pc = "budget"
    /\ expenses \in UNION {[1..n -> BudgetRecords] : n \in 0..MaxAmounts}
    /\ loaded = Loaded(<<>>)
    /\ date_str = <<>>
    /\ amount = FloatZero(FALSE)
    /\ category = <<>>
    /\ inp = <<"3">>
    /\ out = Nothing
    /\ added = expenses

BudgetSpec == InitBudget /\ [][track_budget \/ input_raises]_vars

(***************************************************************************)
(* What the claims speak of, stated apart from the operations above        *)
(***************************************************************************)
\* Python's == on two floats: a NaN equals nothing, 0.0 equals -0.0
FloatEq(x, y) ==
    /\ x.k # "nan"
    /\ y.k # "nan"
    /\ x = y \/ (FloatIsZero(x) /\ FloatIsZero(y))

ExpenseEq(a, b) ==
    /\ a.date = b.date
    /\ a.category = b.category
    /\ FloatEq(a.amount, b.amount)
    /\ a.description = b.description

ListEq(A, B) ==
    /\ Len(A) = Len(B)
    /\ \A i \in DOMAIN A : ExpenseEq(A[i], B[i])

IsPrefix(A, B) == Len(A) <= Len(B) /\ SubSeq(B, 1, Len(A)) = A

\* the records of a stored text as the csv reader splits them, header first
StoredRows(f) == ReadRows(SplitLines(f.data)).rows

\* the four fields a record is stored as, in the fixed order
FieldsOf(list) == [i \in DOMAIN list |-> DictToList(list[i])]

\* the file holds the header and exactly the records of list, in order
Holds(f, list) == f.exists /\ StoredRows(f) = <<FIELDNAMES>> \o FieldsOf(list)

\* a field that is stored as it is, without quotes
IsPlain(text) == \A i \in DOMAIN text : text[i] \notin {COMMA, QUOTE, CR, LF}

PlainLine(fields) ==
    fields[1] \o <<COMMA>> \o fields[2] \o <<COMMA>> \o fields[3] \o <<COMMA>>
    \o fields[4] \o CRLF

RECURSIVE PlainLines(_)
PlainLines(rows) ==
    IF rows = <<>> THEN <<>> ELSE PlainLine(Head(rows)) \o PlainLines(Tail(rows))

\* the number a text of ASCII digits writes
RECURSIVE NumberOf(_)
NumberOf(s) ==
    IF s = <<>> THEN 0
    ELSE 10 * NumberOf(SubSeq(s, 1, Len(s) - 1)) + DigitVal(s[Len(s)])

\* YYYY-MM-DD: four, two and two ASCII digits, dash-separated, naming a day
\* of the calendar
IsCalendarDate(text) ==
    /\ Len(text) = 10
    /\ text[5] = "-"
    /\ text[8] = "-"
    /\ \A i \in {1, 2, 3, 4, 6, 7, 9, 10} : IsAsciiDigit(text[i])
    /\ NumberOf(SubSeq(text, 1, 4)) >= 1
    /\ NumberOf(SubSeq(text, 6, 7)) \in 1..12
    /\ NumberOf(SubSeq(text, 9, 10)) \in
           1..DaysInMonth(NumberOf(SubSeq(text, 1, 4)), NumberOf(SubSeq(text, 6, 7)))

\* ASCII digits with at most one point and an optional leading minus
IsPlainDecimal(text) ==
    LET body == IF text # <<>> /\ Head(text) = "-" THEN Tail(text) ELSE text
    IN  /\ \E i \in DOMAIN body : IsAsciiDigit(body[i])
        /\ \A i \in DOMAIN body : IsAsciiDigit(body[i]) \/ body[i] = "."
        /\ Cardinality({i \in DOMAIN body : body[i] = "."}) <= 1

\* a line without a digit of any script
NoDigit(text) == \A i \in DOMAIN text : ~IsDigit(text[i])

\* a float that is a real number
IsNumber(x) == x.k = "fin"

\* a finite float whose shortest decimal has at most two decimals and at
\* most seven digits before the point: an amount of money as it is written
HasCents(x) == x.k = "fin" /\ Len(x.digs) - x.pt <= 2 /\ x.pt <= 7

\* hundredths of such a float
Cents(x) == NumberOf(x.digs \o Zeros(x.pt + 2 - Len(x.digs))) * (IF x.neg THEN -1 ELSE 1)

\* n hundredths written with two decimals
CentsText(n) ==
    LET a == IF n < 0 THEN 0 - n ELSE n
    IN  (IF n < 0 THEN <<"-">> ELSE <<>>) \o IntToDigits(a \div 100) \o <<".">>
        \o <<DigitChar((a % 100) \div 10), DigitChar(a % 10)>>

AmountsInCents(list) == [i \in DOMAIN list |-> Cents(list[i].amount)]

\* the rows of a stored text after its header
DataRows(f) ==
    LET rows == StoredRows(f) IN SubSeq(rows, 2, Len(rows))

BadRow(row) == Len(row) < 4 \/ ~ParseFloat(row[3]).ok

Corrupt(f) == f.exists /\ \E i \in DOMAIN DataRows(f) : BadRow(DataRows(f)[i])

\* the startup files with a bad data row
CorruptFiles == {f \in StoredFiles : Corrupt(f)}

AddPcs == {"add_date", "add_amount", "add_category", "add_description"}

DateDiagnostic == "Invalid date format. Please use YYYY-MM-DD."
AmountDiagnostic == "Invalid amount. Please enter a number."

(***************************************************************************)
(* The record store                                                        *)
(***************************************************************************)
HasLineBreak(text) == \E i \in DOMAIN text : text[i] \in {CR, LF}

NoLineBreaks(list) ==
    \A i \in DOMAIN list : \A j \in 1..4 : ~HasLineBreak(FieldsOf(list)[i][j])

AllPlain(list) ==
    \A i \in DOMAIN list : \A j \in 1..4 : IsPlain(FieldsOf(list)[i][j])

\* load_expenses has been called after save_expenses(path, R)
Reloaded ==
    pc \in {"saved", "saved_again", "raised", "raised_again"} /\ loaded # NotCalled

\* C1: for any sequence R of records, save_expenses(path, R) returns and
\* load_expenses(path) then returns a sequence equal to R: the same length,
\* the same order, every field of every record equal (the amounts as floats)
C1_RoundTrip ==
    Reloaded =>
        /\ pc \in {"saved", "saved_again"}
        /\ loaded.ok
        /\ ListEq(loaded.list, expenses)

\* a record with a character the file cannot encode: the save raised, the
\* file holds the header alone and the load returns no record
C1_Diverges ==
    /\ pc = "raised"
    /\ out = Nothing
    /\ Len(expenses) = 1
    /\ expenses[1].description = Text_surrogate
    /\ expenses[1].amount = Float_12_5
    /\ file = FileOf(WriteRow(FIELDNAMES))
    /\ loaded = Loaded(<<>>)

\* C3: after a save_expenses(path, R) that succeeded the file holds the
\* header and then the records of R in order, each with its fields in the
\* order date, category, amount, description, and nothing else, whatever the
\* path held before: one physical line per record when no field has a line
\* break, and the comma-joined fields themselves when no field needs quoting
C3_FullOverwrite ==
    pc \in {"saved", "saved_again"} =>
        /\ Holds(file, expenses)
        /\ StoredRows(file)[1] =
               << <<"d", "a", "t", "e">>,
                  <<"c", "a", "t", "e", "g", "o", "r", "y">>,
                  <<"a", "m", "o", "u", "n", "t">>,
                  <<"d", "e", "s", "c", "r", "i", "p", "t", "i", "o", "n">> >>
        /\ NoLineBreaks(expenses) =>
               Len(SplitLines(file.data)) = 1 + Len(expenses)
        /\ AllPlain(expenses) =>
               file.data = PlainLine(FIELDNAMES) \o PlainLines(FieldsOf(expenses))

C3_Witness ==
    /\ pc = "saved"
    /\ file0 = FileOf(File_80_50)
    /\ Len(expenses) = 2
    /\ AllPlain(expenses)
    /\ expenses[1] # expenses[2]
    /\ file.data = PlainLine(FIELDNAMES) \o PlainLines(FieldsOf(expenses))

\* C4: a second save_expenses with the same path and the same sequence
\* ends as the first did and leaves the file as the first left it and the
\* sequence as it was
C4_IdempotentSave ==
    [][/\ pc = "saved" => pc' # "raised_again"
       /\ pc = "raised" => pc' # "saved_again"
       /\ pc' = "saved_again" \/ pc' = "raised_again" =>
              file' = file /\ expenses' = expenses]_vars

C4_Witness ==
    /\ pc = "saved_again"
    /\ Len(expenses) = 2
    /\ file0 = FileOf(File_80_50)
    /\ Holds(file, expenses)

(***************************************************************************)
(* The session                                                             *)
(***************************************************************************)
\* C2: load_expenses on a missing path returns the empty sequence, raises
\* nothing and leaves the path missing; the session then reaches the menu
\* with an empty sequence, and from there its sequence is the records added
C2_MissingFile ==
    /\ [][pc = "start" /\ ~file.exists =>
              /\ loaded' = Loaded(<<>>)
              /\ expenses' = <<>>
              /\ pc' = "menu"
              /\ file' = file]_vars
    /\ [](~file0.exists /\ pc # "start" =>
              loaded = Loaded(<<>>) /\ expenses = added)

C2_Witness ==
    /\ file0 = NoFile
    /\ file = NoFile
    /\ pc = "menu"
    /\ loaded = Loaded(<<>>)
    /\ expenses = <<>>

\* the data rows of a stored file taken as they are: the first, second and
\* fourth field verbatim, the third as the number it is read as
RowsAsRecords(f) ==
    [i \in DOMAIN DataRows(f) |->
        [date |-> DataRows(f)[i][1], category |-> DataRows(f)[i][2],
         amount |-> ParseFloat(DataRows(f)[i][3]).val,
         description |-> DataRows(f)[i][4]]]

\* for each startup file without a bad row, its rows as records
PassedThrough ==
    [f \in {g \in StoredFiles : ~Corrupt(g)} |-> RowsAsRecords(f)]

\* C5: every record add_expense appends has the date line that was read,
\* which is a calendar date written YYYY-MM-DD, the float the amount line
\* was parsed to, which is a number (zero and negatives included), and the
\* category and description lines as read, one read each; the records
\* load_expenses returns are the stored fields as they are, a malformed date
\* included
C5_EntryValidation ==
    [][/\ pc = "add_date" /\ pc' = "add_amount" =>
              date_str' = inp' /\ IsCalendarDate(date_str')
       /\ pc = "add_amount" /\ pc' = "add_category" =>
              /\ ParseFloat(inp').ok
              /\ amount' = ParseFloat(inp').val
              /\ IsNumber(amount')
              /\ date_str' = date_str
       /\ pc = "add_category" /\ pc' = "add_description" =>
              category' = inp' /\ date_str' = date_str /\ amount' = amount
       /\ pc = "add_description" /\ pc' = "menu" =>
              /\ added' = Append(added,
                                 [date |-> date_str, category |-> category,
                                  amount |-> amount, description |-> inp'])
              /\ IsCalendarDate(added'[Len(added')].date)
              /\ IsNumber(added'[Len(added')].amount)
       /\ pc # "add_description" => added' = added
       /\ loaded'.ok => file0 \in DOMAIN PassedThrough
                        /\ loaded'.list = PassedThrough[file0]]_vars

\* an appended record with the date of the line "2024-2- 9" and the amount
\* of the line "nan", after a loaded record with the date 15-01-2024
C5_Diverges ==
    /\ file0 = FileOf(File_80_50)
    /\ pc = "menu"
    /\ expenses[1].date = Date_15_01_2024
    /\ Len(added) = 1
    /\ added[1].date = Date_2024_2_9
    /\ ~IsCalendarDate(added[1].date)
    /\ added[1].amount = FloatNaN
    /\ added[1].description = Text_a_comma_b

\* C6: in add_expense a date line that is no calendar date YYYY-MM-DD, or
\* an amount line that writes no number, prints the diagnostic and asks for
\* the same field again with the sequence unchanged; a calendar date and a
\* plain decimal are taken; no read ends the program with an error; the
\* amount is asked only once a valid date was read; add_expense returns only
\* from its last read, having appended exactly one record, and an
\* add_expense that read a valid date and a valid amount can return
C6_RetryAbsorbs ==
    [][/\ pc \in AddPcs => pc' # "crashed"
       /\ pc = "add_date" =>
              /\ expenses' = expenses
              /\ IF IsCalendarDate(inp')
                 THEN pc' = "add_amount"
                 ELSE pc' = "add_date" /\ out' = Says(DateDiagnostic)
       /\ pc = "add_amount" =>
              /\ expenses' = expenses
              /\ \/ pc' = "add_category"
                 \/ pc' = "add_amount" /\ out' = Says(AmountDiagnostic)
              /\ IsPlainDecimal(inp') => pc' = "add_category"
              /\ NoDigit(inp') => pc' = "add_amount"
       /\ pc = "add_category" =>
              /\ expenses' = expenses
              /\ pc' = "add_description"
              /\ ENABLED add_expense_category
       /\ pc = "add_description" => ENABLED add_expense_description
       /\ pc \in AddPcs /\ pc' \notin AddPcs =>
              /\ pc = "add_description"
              /\ pc' = "menu"
              /\ Len(expenses') = Len(expenses) + 1
              /\ SubSeq(expenses', 1, Len(expenses)) = expenses
       /\ pc' = "add_amount" => pc \in {"add_date", "add_amount"}
       /\ pc' = "add_date" => pc \in {"menu", "add_date"}]_vars

\* the end of the input at the date prompt, after one record was added: the
\* program has ended with EOFError
C6_Diverges ==
    /\ pc = "crashed"
    /\ out = Says("EOFError")
    /\ inp = <<"1">>
    /\ Len(added) = 1
    /\ expenses = loaded.list \o added

\* C7: when a data row of the stored file has fewer than 4 fields or an
\* amount field that is not a number, load_expenses raises, hands back no
\* list (the rows before the bad one included), and the session ends
\* before the menu with the file as it was
C7_CorruptFatal ==
    /\ [](file0 \in CorruptFiles /\ pc # "start" =>
              /\ pc = "crashed"
              /\ ~loaded.ok
              /\ loaded.err \in {"ValueError", "IndexError"}
              /\ loaded.list = <<>>
              /\ expenses = <<>>
              /\ added = <<>>
              /\ file = file0)
    /\ [][pc = "crashed" => UNCHANGED vars]_vars

C7_Witness ==
    /\ file0 = FileOf(File_bad_amount)
    /\ Corrupt(file0)
    /\ Len(DataRows(file0)) = 2
    /\ ~BadRow(DataRows(file0)[1])
    /\ BadRow(DataRows(file0)[2])
    /\ pc = "crashed"
    /\ loaded.err = "ValueError"

RECURSIVE IntSum(_)
IntSum(q) == IF q = <<>> THEN 0 ELSE Head(q) + IntSum(Tail(q))

\* a budget and amounts that are amounts of money
InCents(budget, list) ==
    HasCents(budget) /\ \A i \in DOMAIN list : HasCents(list[i].amount)

IsSummary == out.msg \in {"left for the month", "exceeded your budget"}

\* C8: for an accepted budget B and amounts of money track_budget shows B,
\* the sum of the amounts as the total and, with the balance B minus that
\* total, the balance as left when it is >= 0 and its absolute value as
\* exceeded when it is < 0; [12.50, 30.00] under 100 leaves 57.50, [80, 50]
\* under 100 exceeds by 30.00
C8_BudgetArithmetic ==
    IsSummary /\ InCents(ParseFloat(inp).val, expenses) =>
        LET b == Cents(ParseFloat(inp).val)
            t == IntSum(AmountsInCents(expenses))
        IN  /\ out.budget = CentsText(b)
            /\ out.total = CentsText(t)
            /\ b - t >= 0 =>
                   out.msg = "left for the month" /\ out.shown = CentsText(b - t)
            /\ b - t < 0 =>
                   out.msg = "exceeded your budget" /\ out.shown = CentsText(t - b)
            /\ inp = Budget_100 /\ AmountsInCents(expenses) = <<1250, 3000>> =>
                   /\ out.msg = "left for the month"
                   /\ out.shown = <<"5", "7", ".", "5", "0">>
            /\ inp = Budget_100 /\ AmountsInCents(expenses) = <<8000, 5000>> =>
                   /\ out.msg = "exceeded your budget"
                   /\ out.shown = <<"3", "0", ".", "0", "0">>

\* the amounts [0.1, 0.2] under a budget of 0.3: a balance of zero is
\* reported as the budget exceeded by 0.00
C8_Diverges ==
    /\ IsSummary
    /\ inp = Budget_0_3
    /\ AmountsInCents(expenses) = <<10, 20>>
    /\ out.total = <<"0", ".", "3", "0">>
    /\ out.msg = "exceeded your budget"
    /\ out.shown = <<"0", ".", "0", "0">>

\* C9: the sequence changes only by add_expense appending one record at its
\* end (and by the load at startup); view, track budget, save and an invalid
\* choice leave it as it is; the loaded sequence is a prefix of it and the
\* added records follow in the order they were added
C9_AppendOnly ==
    /\ [][\/ expenses' = expenses
          \/ /\ pc = "add_description"
             /\ Len(expenses') = Len(expenses) + 1
             /\ SubSeq(expenses', 1, Len(expenses)) = expenses
             /\ expenses'[Len(expenses')] =
                    [date |-> date_str, category |-> category,
                     amount |-> amount, description |-> inp']
          \/ pc = "start" /\ expenses' = loaded'.list]_vars
    /\ [](pc \notin {"start", "crashed"} =>
              /\ IsPrefix(loaded.list, expenses)
              /\ expenses = loaded.list \o added)

C9_Witness ==
    /\ pc = "menu"
    /\ file0 = FileOf(File_lunch_bus)
    /\ Len(loaded.list) = 2
    /\ Len(added) = 2
    /\ added[1] # added[2]
    /\ out.msg = "left for the month"
    /\ expenses = loaded.list \o added

\* C10: the file changes only at the menu choices 4 and 5; right after
\* either has succeeded the file holds the current sequence; a session that
\* has ended through choice 5 left the loaded records followed by every
\* added record, in order, in the file
C10_PersistOnSaveAndExit ==
    /\ [][/\ file' # file => pc = "menu" /\ inp' \in {<<"4">>, <<"5">>}
          /\ pc = "menu" /\ inp' \in {<<"4">>, <<"5">>} /\ pc' # "crashed" =>
                 Holds(file', expenses') /\ expenses' = expenses
          /\ pc' = "done" =>
                 /\ pc = "menu" /\ inp' = <<"5">>
                 /\ expenses' = loaded'.list \o added'
                 /\ Holds(file', loaded'.list \o added')
          /\ pc = "done" => UNCHANGED vars]_vars

C10_Witness ==
    /\ pc = "done"
    /\ file0 = FileOf(File_lunch_bus)
    /\ Len(added) = 2
    /\ file # file0
    /\ Holds(file, loaded.list \o added)

====
